---- MODULE Spec2Model ----
(***************************************************************************)
(* A model of the trace viewer of claude-code-explained (view.js):         *)
(*   - the event stream decoder        parseSSEResponse                    *)
(*   - the field sanitizer             removeUnwantedFields                *)
(*   - the trace loader                parseLLMFile, parseExample          *)
(*   - the continuation detector       renderBlocks and its helpers        *)
(*                                                                         *)
(* JavaScript values are records tagged by their type (field t):           *)
(*   undefined, null, number n, string s, array a, object kv               *)
(* A string is a sequence of tokens; an object is a sequence of key/value  *)
(* pairs in key-insertion order.                                           *)
(***************************************************************************)
EXTENDS Integers, Sequences, FiniteSets, TLC

(***************************************************************************)
(* State. Each component has its own specification over its own variables; *)
(* the variables of the other components stay as they are.                 *)
(*   decoder:    alphabet, dec, seen, shape                                *)
(*   sanitizer:  doc, san                                                  *)
(*   loader:     dir, loaded                                               *)
(*   renderer:   vocabulary, llmTraces, rendered, exampleId, blockDataStore, *)
(*               selected (the value of the select), pending (the ids of   *)
(*               the fetches that have not answered yet)                   *)
(*   matcher:    systemPrompts, prompt, matchResult                        *)
(***************************************************************************)
VARIABLES alphabet, dec, seen, shape, doc, san, dir, loaded, vocabulary, llmTraces,
          rendered, exampleId, blockDataStore, selected, pending, systemPrompts,
          prompt, matchResult

decVars == <<alphabet, dec, seen, shape>>
sanVars == <<doc, san>>
loadVars == <<dir, loaded>>
renVars == <<vocabulary, llmTraces, rendered, exampleId, blockDataStore, selected, pending>>
vars ==
  <<alphabet, dec, seen, shape, doc, san, dir, loaded, vocabulary, llmTraces, rendered,
    exampleId, blockDataStore, selected, pending, systemPrompts, prompt, matchResult>>

(***************************************************************************)
(* JavaScript values                                                       *)
(***************************************************************************)
Undef == [t |-> "undefined"]
Null == [t |-> "null"]
Num(n) == [t |-> "number", n |-> n]
Str(s) == [t |-> "string", s |-> s]
Arr(items) == [t |-> "array", a |-> items]
Obj(pairs) == [t |-> "object", kv |-> pairs]
KV(key, val) == [k |-> key, v |-> val]
EmptyStr == Str(<<>>)
EmptyObj == Obj(<<>>)

\* typeof v
TypeOf(v) ==
  IF v.t \in {"object", "array", "null"} THEN "object" ELSE v.t

\* the truthiness of v, as `if (v)` and `v || w` test it
Truthy(v) ==
  CASE v.t = "undefined" -> FALSE
    [] v.t = "null" -> FALSE
    [] v.t = "number" -> v.n # 0
    [] v.t = "string" -> v.s # <<>>
    [] OTHER -> TRUE

\* v || w
OrElse(v, w) == IF Truthy(v) THEN v ELSE w

HasProto(o) == o.t = "object" /\ "proto" \in DOMAIN o

\* o has an own property key
HasKey(o, key) ==
  o.t = "object" /\ \E i \in 1..Len(o.kv) : o.kv[i].k = key

\* the property name of the array index i (1-based here, 0-based there)
IndexKey(i) ==
  CASE i = 1 -> "0" [] i = 2 -> "1" [] i = 3 -> "2" [] i = 4 -> "3" [] OTHER -> "4"

\* o[key]: an own property, else one of the prototype chain, else undefined
RECURSIVE Get(_, _)
Get(o, key) ==
  CASE HasKey(o, key) -> o.kv[CHOOSE i \in 1..Len(o.kv) : o.kv[i].k = key].v
    [] HasProto(o) -> Get(o.proto, key)
    [] o.t = "array" /\ \E i \in 1..Len(o.a) : IndexKey(i) = key ->
         o.a[CHOOSE i \in 1..Len(o.a) : IndexKey(i) = key]
    [] OTHER -> Undef

\* o[key] = val for a key other than __proto__: an existing own key keeps
\* its place, a new key goes last
Put(o, key, val) ==
  [o EXCEPT !.kv =
     IF HasKey(o, key)
     THEN [i \in 1..Len(o.kv) |-> IF o.kv[i].k = key THEN KV(key, val) ELSE o.kv[i]]
     ELSE Append(o.kv, KV(key, val))]

\* reading a property of undefined or null throws a TypeError
ReadThrows(v) == v.t \in {"undefined", "null"}

\* String(v), the conversion the + operator applies to a non-string operand
ToStr(v) ==
  CASE v.t = "string" -> v.s
    [] v.t = "undefined" -> <<"undefined">>
    [] v.t = "null" -> <<"null">>
    [] v.t = "number" -> <<"1">>
    [] v.t = "array" -> <<>>
    [] OTHER -> <<"[object Object]">>

\* v + w where at least one operand is a string
Plus(v, w) == Str(ToStr(v) \o ToStr(w))

\* s.trim()
RECURSIVE Trim(_)
Trim(s) ==
  IF s # <<>> /\ Head(s) = " " THEN Trim(Tail(s))
  ELSE IF s # <<>> /\ s[Len(s)] = " " THEN Trim(SubSeq(s, 1, Len(s) - 1))
  ELSE s

(***************************************************************************)
(* JSON.parse over the tokens  { } : , 1 q n  and the blank: 1 is a        *)
(* number, q a quoted string (a key or a value), n the literal null.       *)
(* The result is [ok, v, i]: whether a value was read, the value, and the  *)
(* position after it.                                                      *)
(***************************************************************************)
ParseFail == [ok |-> FALSE, v |-> Undef, i |-> 0]
ParseOk(val, next) == [ok |-> TRUE, v |-> val, i |-> next]

RECURSIVE SkipWs(_, _)
SkipWs(s, i) ==
  IF i <= Len(s) /\ s[i] = " " THEN SkipWs(s, i + 1) ELSE i

RECURSIVE ParseValue(_, _)
RECURSIVE ParseMembers(_, _, _)

ParseValue(s, i) ==
  LET j == SkipWs(s, i) IN
  IF j > Len(s) THEN ParseFail
  ELSE CASE s[j] = "1" -> ParseOk(Num(1), j + 1)
         [] s[j] = "q" -> ParseOk(Str(<<"q">>), j + 1)
         [] s[j] = "n" -> ParseOk(Null, j + 1)
         [] s[j] = "{" ->
              LET k == SkipWs(s, j + 1) IN
              IF k <= Len(s) /\ s[k] = "}"
              THEN ParseOk(EmptyObj, k + 1)
              ELSE ParseMembers(s, k, EmptyObj)
         [] OTHER -> ParseFail

\* the members of an object after its { or after a comma, up to its }
ParseMembers(s, i, acc) ==
  LET j == SkipWs(s, i) IN
  IF j > Len(s) \/ s[j] # "q" THEN ParseFail
  ELSE LET c == SkipWs(s, j + 1) IN
       IF c > Len(s) \/ s[c] # ":" THEN ParseFail
       ELSE LET r == ParseValue(s, c + 1) IN
            IF ~r.ok THEN ParseFail
            ELSE LET e == SkipWs(s, r.i)
                     obj == Put(acc, "q", r.v) IN
                 IF e > Len(s) THEN ParseFail
                 ELSE CASE s[e] = "}" -> ParseOk(obj, e + 1)
                        [] s[e] = "," -> ParseMembers(s, e + 1, obj)
                        [] OTHER -> ParseFail

\* JSON.parse(s): [ok |-> FALSE] stands for the SyntaxError it throws
JSONParse(s) ==
  LET r == ParseValue(s, 1) IN
  IF r.ok /\ SkipWs(s, r.i) > Len(s) THEN r ELSE ParseFail

(***************************************************************************)
(* Event Stream Decoder: parseSSEResponse                                  *)
(*                                                                         *)
(* An event is [type, data]: data is null when the event had no data line, *)
(* the parsed JSON value of its data line, or the raw line as a string     *)
(* when that line was not JSON. The decoder state is the message           *)
(* accumulator, the in-progress blocks by index, the indices console.warn  *)
(* was called for, and a status: running, thrown (an exception left the    *)
(* loop) or returned.                                                      *)
(***************************************************************************)
Event(type, data) == [type |-> type, data |-> data]

\* the message and the empty contentBlocks the decoder starts from
DecoderStart ==
  [message |->
     Obj(<< KV("model", EmptyStr), KV("id", EmptyStr),
            KV("type", Str(<<"message">>)), KV("role", Str(<<"assistant">>)),
            KV("content", Arr(<<>>)), KV("stop_reason", Null),
            KV("stop_sequence", Null), KV("usage", EmptyObj) >>),
   contentBlocks |-> [i \in {} |-> Undef], warned |-> {},
   status |-> "running"]

Thrown(d) == [d EXCEPT !.status = "thrown"]

\* the property key an index value selects in contentBlocks
KeyOf(index) == IF index.t = "number" THEN index.n ELSE -1

\* contentBlocks[index], undefined when there is no such block
BlockAt(d, index) ==
  IF KeyOf(index) \in DOMAIN d.contentBlocks
  THEN d.contentBlocks[KeyOf(index)]
  ELSE Undef

SetBlock(d, index, block) ==
  [d EXCEPT !.contentBlocks =
     [i \in (DOMAIN d.contentBlocks) \union {KeyOf(index)} |->
        IF i = KeyOf(index) THEN block ELSE d.contentBlocks[i]]]

OnMessageStart(d, data) ==
  LET msg == Get(data, "message") IN
  IF ReadThrows(msg) THEN Thrown(d)
  ELSE [d EXCEPT !.message =
          Put(Put(Put(d.message, "model", Get(msg, "model")),
                  "id", Get(msg, "id")),
              "usage", Get(msg, "usage"))]

\* contentBlocks[index] = { ...content_block }: a shallow copy of an object,
\* {} for undefined and null
OnContentBlockStart(d, data) ==
  LET block == Get(data, "content_block") IN
  SetBlock(d, Get(data, "index"), IF block.t = "object" THEN block ELSE EmptyObj)

\* no reset: the fragment is appended to the placeholder itself
ResetInputOmitted(block) == block

\* the input of an in-progress block before a partial_json fragment is
\* appended: a structured value is replaced by the empty string
ResetInput(block) ==
  IF TypeOf(Get(block, "input")) = "object"
  THEN Put(block, "input", EmptyStr)
  ELSE block

\* no block is made up: the merge reads a property of undefined
ImplicitBlockMissing(delta) == Undef

\* the block of a delta event for an index that has no block yet:
\* { type: delta.type.replace('_delta', '') }
ImplicitBlock(delta) ==
  LET type == Get(delta, "type").s
      stripped == CASE type = <<"text_delta">> -> <<"text">>
                    [] type = <<"thinking_delta">> -> <<"thinking">>
                    [] type = <<"input_json_delta">> -> <<"input_json">>
                    [] OTHER -> type IN
  Obj(<< KV("type", Str(stripped)) >>)

\* the delta replaces what the block has accumulated instead of being
\* appended to it
MergeDeltaOverwrites(block, delta) ==
  LET type == Get(delta, "type") IN
  CASE type = Str(<<"text_delta">>) -> Put(block, "text", Get(delta, "text"))
    [] type = Str(<<"thinking_delta">>) -> Put(block, "thinking", Get(delta, "thinking"))
    [] type = Str(<<"input_json_delta">>) -> Put(block, "input", Get(delta, "partial_json"))
    [] OTHER -> block

\* the merge of one delta into its block
MergeDelta(block, delta) ==
  LET type == Get(delta, "type") IN
  CASE type = Str(<<"text_delta">>) ->
         Put(block, "text",
             Plus(OrElse(Get(block, "text"), EmptyStr), Get(delta, "text")))
    [] type = Str(<<"thinking_delta">>) ->
         Put(block, "thinking",
             Plus(OrElse(Get(block, "thinking"), EmptyStr), Get(delta, "thinking")))
    [] type = Str(<<"input_json_delta">>) ->
         LET b == ResetInput(block) IN
         Put(b, "input",
             Plus(OrElse(Get(b, "input"), EmptyStr), Get(delta, "partial_json")))
    [] OTHER -> block

OnContentBlockDelta(d, data) ==
  LET index == Get(data, "index")
      delta == Get(data, "delta")
      old == BlockAt(d, index) IN
  IF ReadThrows(delta) THEN Thrown(d)
  ELSE IF ~Truthy(old) /\ Get(delta, "type").t # "string" THEN Thrown(d)
  ELSE LET block == IF Truthy(old) THEN old ELSE ImplicitBlock(delta) IN
       IF ReadThrows(block) THEN Thrown(d)
       ELSE SetBlock(d, index, MergeDelta(block, delta))

\* no try/catch around JSON.parse: the SyntaxError leaves the loop
StopParseUncaught(d, index) == Thrown(d)

\* what the catch clause of content_block_stop leaves in d
StopParseFailed(d, index) ==
  [d EXCEPT !.warned = @ \union {KeyOf(index)}]

\* no branch for the empty string: the input stays as it is
StopEmptyInputKept(d, index) == d

\* the branch of content_block_stop for an input string that is empty once
\* trimmed: contentBlocks[index].input = {}
StopEmptyInput(d, index) ==
  SetBlock(d, index, Put(BlockAt(d, index), "input", EmptyObj))

OnContentBlockStop(d, data) ==
  LET index == Get(data, "index")
      block == BlockAt(d, index)
      input == Get(block, "input") IN
  IF ~Truthy(block) \/ TypeOf(input) # "string" THEN d
  ELSE IF Trim(input.s) # <<>>
       THEN LET r == JSONParse(input.s) IN
            IF r.ok THEN SetBlock(d, index, Put(block, "input", r.v))
            ELSE StopParseFailed(d, index)
       ELSE StopEmptyInput(d, index)

OnMessageDelta(d, data) ==
  LET delta == Get(data, "delta")
      usage == Get(data, "usage")
      m1 == IF Truthy(delta) /\ Truthy(Get(delta, "stop_reason"))
            THEN Put(d.message, "stop_reason", Get(delta, "stop_reason"))
            ELSE d.message
      m2 == IF Truthy(delta) /\ Truthy(Get(delta, "stop_sequence"))
            THEN Put(m1, "stop_sequence", Get(delta, "stop_sequence"))
            ELSE m1
      mu == Get(m2, "usage") IN
  IF ~Truthy(usage) THEN [d EXCEPT !.message = m2]
  ELSE IF ReadThrows(mu) THEN Thrown([d EXCEPT !.message = m2])
  ELSE IF mu.t # "object" THEN [d EXCEPT !.message = m2]
  ELSE [d EXCEPT !.message =
          Put(m2, "usage", Put(mu, "output_tokens", Get(usage, "output_tokens")))]

\* an event of a kind without branch raises an error
StepUnknownThrows(d, ev) ==
  IF d.status # "running" \/ ~Truthy(ev.data) THEN d
  ELSE CASE ev.type = "message_start" -> OnMessageStart(d, ev.data)
         [] ev.type = "content_block_start" -> OnContentBlockStart(d, ev.data)
         [] ev.type = "content_block_delta" -> OnContentBlockDelta(d, ev.data)
         [] ev.type = "content_block_stop" -> OnContentBlockStop(d, ev.data)
         [] ev.type = "message_delta" -> OnMessageDelta(d, ev.data)
         [] OTHER -> Thrown(d)

\* one pass of the loop over the events
Step(d, ev) ==
  IF d.status # "running" \/ ~Truthy(ev.data) THEN d
  ELSE CASE ev.type = "message_start" -> OnMessageStart(d, ev.data)
         [] ev.type = "content_block_start" -> OnContentBlockStart(d, ev.data)
         [] ev.type = "content_block_delta" -> OnContentBlockDelta(d, ev.data)
         [] ev.type = "content_block_stop" -> OnContentBlockStop(d, ev.data)
         [] ev.type = "message_delta" -> OnMessageDelta(d, ev.data)
         [] OTHER -> d

\* the elements of a set of integers in ascending order
RECURSIVE SortAscending(_)
SortAscending(S) ==
  IF S = {} THEN <<>>
  ELSE LET m == CHOOSE x \in S : \A y \in S : x <= y IN
       <<m>> \o SortAscending(S \ {m})

RECURSIVE SortDescending(_)
SortDescending(S) ==
  IF S = {} THEN <<>>
  ELSE LET m == CHOOSE x \in S : \A y \in S : x >= y IN
       <<m>> \o SortDescending(S \ {m})

\* a comparator with its operands swapped: (a, b) => b - a
ContentIndexesSwapped(blocks) == SortDescending(DOMAIN blocks)

\* Object.keys(contentBlocks).map(k => parseInt(k)).sort((a, b) => a - b)
ContentIndexes(blocks) == SortAscending(DOMAIN blocks)

\* the end of parseSSEResponse: the blocks become message.content
Finish(d) ==
  IF d.status # "running" THEN d
  ELSE LET idx == ContentIndexes(d.contentBlocks) IN
       [d EXCEPT !.status = "returned",
                 !.message = Put(d.message, "content",
                   Arr([j \in 1..Len(idx) |-> d.contentBlocks[idx[j]]]))]

\* the loop over the events; the decoder after the first event is bound as
\* a value (next) before the loop goes on with it
RECURSIVE DecodeEvents(_, _)
DecodeEvents(d, events) ==
  IF events = <<>> THEN d
  ELSE CHOOSE end \in {DecodeEvents(next, Tail(events)) :
                         next \in {Step(d, Head(events))}} : TRUE

\* parseSSEResponse on the events of a body
ParseSSEResponse(events) == Finish(DecodeEvents(DecoderStart, events))

(***************************************************************************)
(* The decoder as a state machine: one action per event kind, and the      *)
(* return of parseSSEResponse. A stream draws its events from one of       *)
(* three alphabets, chosen when the stream starts:                         *)
(*   blocks   text and tool_use blocks at every index, text deltas         *)
(*   input    a tool_use block at index 0 fed partial_json fragments, and  *)
(*            text deltas for the last index                               *)
(*   message  message-level events anywhere, events without payload and   *)
(*            of unknown kind, and one text block                          *)
(* seen records, for every block index, what the stream carried for it,    *)
(* independently of what the decoder made of it; shape records whether     *)
(* the stream is well formed (empty, open, complete), or else whether its  *)
(* last event had no payload or an unknown kind (ignored) or not (other).  *)
(***************************************************************************)
MaxIndex == 1
MaxTokens == 5

Indices == 0..MaxIndex

TextBlock == Obj(<< KV("type", Str(<<"text">>)), KV("text", EmptyStr) >>)

ToolUseBlock(placeholder) ==
  Obj(<< KV("type", Str(<<"tool_use">>)), KV("id", Str(<<"toolu_AB12">>)),
         KV("name", Str(<<"Read">>)), KV("input", placeholder) >>)

TextDelta == Obj(<< KV("type", Str(<<"text_delta">>)), KV("text", Str(<<"a">>)) >>)

\* the <<index, content_block>> pairs of content_block_start events
StartChoices ==
  CASE alphabet = "blocks" ->
         Indices \X {TextBlock, ToolUseBlock(EmptyObj)}
    [] alphabet = "input" ->
         {0} \X {ToolUseBlock(EmptyObj), ToolUseBlock(Obj(<<KV("q", Num(1))>>))}
    [] OTHER -> {0} \X {TextBlock}

\* the <<index, delta>> pairs of content_block_delta events; the
\* input_json_delta events carry the partial_json fragments
DeltaChoices ==
  LET Fragments == { <<"{", "q">>, <<":", "1", "}">>, <<"{", "}">>, <<" ">>, <<>> }
      InputJsonDelta(frag) ==
        Obj(<< KV("type", Str(<<"input_json_delta">>)),
               KV("partial_json", Str(frag)) >>) IN
  CASE alphabet = "blocks" -> Indices \X {TextDelta}
    [] alphabet = "input" ->
         ({0} \X {InputJsonDelta(f) : f \in Fragments}) \union ({MaxIndex} \X {TextDelta})
    [] OTHER -> {0} \X {TextDelta}

Usage(n) == Obj(<< KV("input_tokens", Num(3)), KV("output_tokens", Num(n)) >>)

MessageStartData(usage) ==
  Obj(<< KV("type", Str(<<"message_start">>)),
         KV("message", Obj(<< KV("model", Str(<<"claude">>)),
                              KV("id", Str(<<"msg_01">>)),
                              KV("usage", usage) >>)) >>)

\* the data of message_delta events: with and without stop_reason,
\* stop_sequence, usage and usage.output_tokens
MessageDeltaData ==
  { Obj(<< KV("delta", Obj(<< KV("stop_reason", Str(<<"end_turn">>)),
                              KV("stop_sequence", Null) >>)),
           KV("usage", Obj(<< KV("output_tokens", Num(7)) >>)) >>),
    Obj(<< KV("delta", Obj(<< KV("stop_sequence", Str(<<"END">>)) >>)) >>),
    Obj(<< KV("usage", Obj(<< KV("output_tokens", Num(9)) >>)) >>),
    Obj(<< KV("usage", Obj(<< KV("input_tokens", Num(5)) >>)) >>),
    Obj(<< KV("delta", EmptyObj) >>) }

BlockData(i, key, val) == Obj(<< KV("index", Num(i)), KV(key, val) >>)

StopData(i) == Obj(<< KV("index", Num(i)) >>)

MessageStopData == Obj(<< KV("type", Str(<<"message_stop">>)) >>)

\* the number of tokens of v if it is a string, else 0
StrLen(v) == IF v.t = "string" THEN Len(v.s) ELSE 0

RECURSIVE TokensOf(_, _)
TokensOf(blocks, S) ==
  IF S = {} THEN 0
  ELSE LET i == CHOOSE x \in S : TRUE IN
       StrLen(Get(blocks[i], "text")) + StrLen(Get(blocks[i], "input"))
         + TokensOf(blocks, S \ {i})

RECURSIVE SeenTokens(_, _)
SeenTokens(sn, S) ==
  IF S = {} THEN 0
  ELSE LET i == CHOOSE x \in S : TRUE IN
       Len(sn[i].json) + Len(sn[i].text) + SeenTokens(sn, S \ {i})

\* what the stream has carried for an index: its phase (none; orphan: deltas
\* but no start; open: started; closed: stopped once after its start; reused:
\* events after that stop), the content_block of its start event, the type of
\* the delta that created it if none did, and the partial_json fragments and
\* delta texts since its start, concatenated
SeenNothing ==
  [phase |-> "none", start |-> Undef, first |-> Undef, json |-> <<>>, text |-> <<>>]

DecIdle ==
  /\ alphabet = "blocks"
  /\ dec = DecoderStart
  /\ seen = [i \in Indices |-> SeenNothing]
  /\ shape = "empty"

SanIdle ==
  /\ doc = Null
  /\ san = [status |-> "idle"]

LoadIdle ==
  /\ dir = [id |-> "", exists |-> FALSE, entries |-> <<>>]
  /\ loaded = [status |-> "idle"]

RenIdle ==
  /\ vocabulary = "echo"
  /\ llmTraces = <<>>
  /\ rendered = [status |-> "idle"]
  /\ exampleId = <<"01_explain">>
  /\ blockDataStore = <<>>
  /\ selected = <<"01_explain">>
  /\ pending = <<>>

MatIdle ==
  /\ systemPrompts = <<>>
  /\ prompt = Null
  /\ matchResult = [status |-> "idle"]

DecInit ==
  /\ alphabet \in {"blocks", "input", "message"}
  /\ dec = DecoderStart
  /\ seen = [i \in Indices |-> SeenNothing]
  /\ shape = "empty"
  /\ SanIdle
  /\ LoadIdle
  /\ RenIdle
  /\ MatIdle

\* the stream stays well formed (open) only if the event fits: a message_start
\* first, then start/delta/stop cycles of fresh indices, then a message_stop
MessageStart ==
  /\ dec.status = "running"
  /\ alphabet = "message" \/ shape = "empty"
  /\ shape # "complete"
  /\ \E usage \in (IF alphabet = "message" THEN {Usage(1), Undef} ELSE {Usage(1)}) :
       dec' = Step(dec, Event("message_start", MessageStartData(usage)))
  /\ shape' = IF shape = "empty" THEN "open" ELSE "other"
  /\ UNCHANGED <<alphabet, seen>>
  /\ UNCHANGED <<sanVars, loadVars, renVars, systemPrompts, prompt, matchResult>>

ContentBlockStart ==
  /\ dec.status = "running"
  /\ shape # "complete"
  /\ \E c \in StartChoices :
       /\ dec' = Step(dec, Event("content_block_start",
                                 BlockData(c[1], "content_block", c[2])))
       /\ seen' = [seen EXCEPT ![c[1]] =
                     [phase |-> "open", start |-> c[2], first |-> Undef,
                      json |-> <<>>, text |-> <<>>]]
       /\ shape' = IF shape = "open" /\ seen[c[1]].phase = "none"
                   THEN "open" ELSE "other"
  /\ UNCHANGED alphabet
  /\ UNCHANGED <<sanVars, loadVars, renVars, systemPrompts, prompt, matchResult>>

ContentBlockDelta ==
  /\ dec.status = "running"
  /\ shape # "complete"
  /\ \E c \in DeltaChoices :
       /\ dec' = Step(dec, Event("content_block_delta", BlockData(c[1], "delta", c[2])))
       /\ TokensOf(dec'.contentBlocks, DOMAIN dec'.contentBlocks) <= MaxTokens
       /\ seen' = [seen EXCEPT ![c[1]] =
            [phase |-> CASE @.phase = "none" -> "orphan"
                         [] @.phase = "closed" -> "reused"
                         [] OTHER -> @.phase,
             start |-> @.start,
             first |-> IF @.phase = "none" THEN Get(c[2], "type") ELSE @.first,
             json |-> IF HasKey(c[2], "partial_json")
                      THEN @.json \o Get(c[2], "partial_json").s ELSE @.json,
             text |-> IF HasKey(c[2], "text")
                      THEN @.text \o Get(c[2], "text").s ELSE @.text]]
       /\ SeenTokens(seen', Indices) <= MaxTokens
       /\ shape' = IF shape = "open" /\ seen[c[1]].phase = "open"
                   THEN "open" ELSE "other"
  /\ UNCHANGED alphabet
  /\ UNCHANGED <<sanVars, loadVars, renVars, systemPrompts, prompt, matchResult>>

ContentBlockStop ==
  /\ dec.status = "running"
  /\ shape # "complete"
  /\ \E i \in (IF alphabet = "blocks" THEN Indices ELSE {0}) :
       /\ dec' = Step(dec, Event("content_block_stop", StopData(i)))
       /\ seen' = [seen EXCEPT ![i].phase =
                     CASE @ = "open" -> "closed"
                       [] @ = "closed" -> "reused"
                       [] OTHER -> @]
       /\ shape' = IF shape = "open" /\ seen[i].phase = "open"
                   THEN "open" ELSE "other"
  /\ UNCHANGED alphabet
  /\ UNCHANGED <<sanVars, loadVars, renVars, systemPrompts, prompt, matchResult>>

MessageDelta ==
  /\ dec.status = "running"
  /\ alphabet = "message"
  /\ shape # "complete"
  /\ \E data \in MessageDeltaData :
       dec' = Step(dec, Event("message_delta", data))
  /\ shape' = IF shape = "open" THEN "open" ELSE "other"
  /\ UNCHANGED <<alphabet, seen>>
  /\ UNCHANGED <<sanVars, loadVars, renVars, systemPrompts, prompt, matchResult>>

\* message_stop ends the stream
MessageStop ==
  /\ dec.status = "running"
  /\ shape # "complete"
  /\ dec' = Step(dec, Event("message_stop", MessageStopData))
  /\ shape' = IF shape = "open" /\ (\A o \in Indices : seen[o].phase # "open")
                   /\ \E i \in Indices : seen[i].phase = "closed"
              THEN "complete" ELSE "other"
  /\ UNCHANGED <<alphabet, seen>>
  /\ UNCHANGED <<sanVars, loadVars, renVars, systemPrompts, prompt, matchResult>>

\* an event of any kind that had no data line
NoPayload ==
  /\ dec.status = "running"
  /\ alphabet = "message"
  /\ shape # "complete"
  /\ \E type \in {"message_start", "content_block_delta", "message_delta", "ping"} :
       dec' = Step(dec, Event(type, Null))
  /\ shape' = "ignored"
  /\ UNCHANGED <<alphabet, seen>>
  /\ UNCHANGED <<sanVars, loadVars, renVars, systemPrompts, prompt, matchResult>>

\* an event of a kind the decoder does not know
UnknownKind ==
  /\ dec.status = "running"
  /\ alphabet = "message"
  /\ shape # "complete"
  /\ dec' = Step(dec, Event("ping", Obj(<< KV("type", Str(<<"ping">>)) >>)))
  /\ shape' = "ignored"
  /\ UNCHANGED <<alphabet, seen>>
  /\ UNCHANGED <<sanVars, loadVars, renVars, systemPrompts, prompt, matchResult>>

\* the loop has consumed the last event: the blocks are sorted and returned
Return ==
  /\ dec.status = "running"
  /\ dec' = Finish(dec)
  /\ UNCHANGED <<alphabet, seen, shape>>
  /\ UNCHANGED <<sanVars, loadVars, renVars, systemPrompts, prompt, matchResult>>

DecNext ==
  \/ MessageStart
  \/ ContentBlockStart
  \/ ContentBlockDelta
  \/ ContentBlockStop
  \/ MessageDelta
  \/ MessageStop
  \/ NoPayload
  \/ UnknownKind
  \/ Return

SpecDecoder == DecInit /\ [][DecNext]_vars

(***************************************************************************)
(* Properties of the decoder                                               *)
(***************************************************************************)
\* the indices the stream has carried a start or a delta event for
SeenIndices == {i \in Indices : seen[i].phase # "none"}

\* message.content of a returned message
Content == Get(dec.message, "content").a

\* the place of index i among the seen indices, in ascending order
Rank(i) == 1 + Cardinality({x \in SeenIndices : x < i})

WellFormedReturned == dec.status = "returned" /\ shape = "complete"

\* C1: the message returned for a well-formed stream (message_start,
\* start/delta/stop cycles, message_stop) has exactly one content block per
\* block index of the stream, in ascending order of index.
C1_OneBlockPerIndexAscending ==
  WellFormedReturned =>
    /\ Len(Content) = Cardinality(SeenIndices)
    /\ \A i \in SeenIndices :
         /\ i \in DOMAIN dec.contentBlocks
         /\ Content[Rank(i)] = dec.contentBlocks[i]
         /\ Get(Content[Rank(i)], "type") = Get(seen[i].start, "type")

C1_Witness ==
  /\ WellFormedReturned
  /\ SeenIndices = {0, 1}
  /\ Content[1] # Content[2]
  /\ Get(Content[2], "text") = Str(<<"a">>)

\* the tool_use cycles of the claim: a start with a structured placeholder,
\* then input_json_delta events, then the stop
ToolCycleClosed(i) ==
  /\ seen[i].phase = "closed"
  /\ Get(seen[i].start, "type") = Str(<<"tool_use">>)
  /\ TypeOf(Get(seen[i].start, "input")) = "object"
  /\ seen[i].text = <<>>

\* C2: after a tool_use start with a structured input placeholder,
\* input_json_delta events and the stop, the block's input is the JSON value
\* of the concatenated fragments (the placeholder adds nothing), and its type,
\* id and name are those of the start event.
C2_ToolInputIsParsedFragments ==
  \A i \in Indices :
    (ToolCycleClosed(i) /\ JSONParse(seen[i].json).ok) =>
      /\ dec.status # "thrown"
      /\ i \in DOMAIN dec.contentBlocks
      /\ Get(dec.contentBlocks[i], "input") = JSONParse(seen[i].json).v
      /\ \A key \in {"type", "id", "name"} :
           Get(dec.contentBlocks[i], key) = Get(seen[i].start, key)
      /\ dec.status = "returned" => Content[Rank(i)] = dec.contentBlocks[i]

C2_Witness ==
  /\ ToolCycleClosed(0)
  /\ seen[0].json = <<"{", "q", ":", "1", "}">>
  /\ Get(seen[0].start, "input") = Obj(<<KV("q", Num(1))>>)
  /\ dec.status = "returned"
  /\ Content[1] = ToolUseBlock(Obj(<<KV("q", Num(1))>>))

\* an index whose block was created by a text_delta and never started
OrphanText(i) ==
  seen[i].phase = "orphan" /\ seen[i].first = Str(<<"text_delta">>)

\* C9: a text_delta for an index without a content_block_start does not
\* abort decoding, and the content has a text block at that index whose text
\* is the concatenation of the delta texts received for it.
C9_OrphanTextDeltaMakesTextBlock ==
  /\ alphabet # "message" => dec.status # "thrown"
  /\ \A i \in Indices :
       (OrphanText(i) /\ dec.status # "thrown") =>
         /\ i \in DOMAIN dec.contentBlocks
         /\ Get(dec.contentBlocks[i], "type") = Str(<<"text">>)
         /\ Get(dec.contentBlocks[i], "text") = Str(seen[i].text)
         /\ dec.status = "returned" => Content[Rank(i)] = dec.contentBlocks[i]

C9_Witness ==
  /\ OrphanText(1)
  /\ seen[1].text = <<"a", "a">>
  /\ seen[0].phase = "closed"
  /\ dec.status = "returned"
  /\ Content[2] = Obj(<< KV("type", Str(<<"text">>)), KV("text", Str(<<"a", "a">>)) >>)

\* the accumulated input of index i was not valid JSON at its stop
StoppedOnBadJson(i) ==
  /\ alphabet = "input"
  /\ seen[i].phase = "closed"
  /\ Trim(seen[i].json) # <<>>
  /\ ~JSONParse(seen[i].json).ok

\* C10: when the accumulated tool input is not valid JSON at
\* content_block_stop, the input stays the raw accumulated string, a warning
\* is issued, decoding does not abort, and the events of the rest of the
\* stream still take effect (here: the text deltas of another index, and the
\* return of the message with all its blocks).
C10_BadToolInputKeptDecodingGoesOn ==
  \A i \in Indices :
    StoppedOnBadJson(i) =>
      /\ dec.status # "thrown"
      /\ Get(dec.contentBlocks[i], "input") = Str(seen[i].json)
      /\ i \in dec.warned
      /\ \A j \in Indices \ {i} :
           OrphanText(j) => Get(dec.contentBlocks[j], "text") = Str(seen[j].text)
      /\ dec.status = "returned" =>
           /\ Len(Content) = Cardinality(SeenIndices)
           /\ Get(Content[Rank(i)], "input") = Str(seen[i].json)

C10_Witness ==
  /\ StoppedOnBadJson(0)
  /\ seen[0].json = <<"{", "q">>
  /\ OrphanText(MaxIndex)
  /\ dec.status = "returned"
  /\ Len(Content) = 2

\* a tool_use block that was started and stopped, with no event for its
\* index since
ToolClosed(i) ==
  /\ seen[i].phase = "closed"
  /\ Get(seen[i].start, "type") = Str(<<"tool_use">>)

Unterminated(i) == seen[i].phase = "open"

\* C12: a block that was started (and possibly fed deltas) but not stopped
\* is in the returned content at the place of its index, with the type, id
\* and name of its start event, the text of its deltas, and as input the
\* concatenated fragments as a string, never parsed (the placeholder of the
\* start event, or the empty string, when no fragment had any character).
C12_UnterminatedBlockReturned ==
  dec.status = "returned" =>
    \A i \in Indices :
      Unterminated(i) =>
        LET block == Content[Rank(i)]
            start == seen[i].start IN
        /\ Len(Content) = Cardinality(SeenIndices)
        /\ \A key \in {"type", "id", "name"} : Get(block, key) = Get(start, key)
        /\ Get(block, "text") =
             IF seen[i].text = <<>> THEN Get(start, "text") ELSE Str(seen[i].text)
        /\ Get(block, "input") \in
             IF seen[i].json = <<>> THEN {Get(start, "input"), EmptyStr}
             ELSE {Str(seen[i].json)}

\* a tool_use block returned without a stop, its input the string of two
\* fragments that together are valid JSON
C12_Witness ==
  /\ dec.status = "returned"
  /\ Unterminated(0)
  /\ seen[0].json = <<"{", "q", ":", "1", "}">>
  /\ Get(Content[1], "type") = Str(<<"tool_use">>)
  /\ Get(Content[1], "input") = Str(<<"{", "q", ":", "1", "}">>)

\* C13: an event without payload, an event of an unknown kind and a
\* message_stop event leave the decoder as it was, still running: message
\* and blocks are those of the stream without the event.
C13_IgnoredEventsChangeNothing ==
  [][(NoPayload \/ UnknownKind \/ MessageStop) => dec' = dec]_vars

\* a message returned with its model and a text block, for a stream whose
\* last event had no payload or an unknown kind
C13_Witness ==
  /\ dec.status = "returned"
  /\ shape = "ignored"
  /\ Get(dec.message, "model") = Str(<<"claude">>)
  /\ Len(Content) = 1
  /\ Get(Content[1], "text") = Str(<<"a">>)

\* the output_tokens of the usage of message m, undefined without usage
OutputTokens(m) ==
  IF Get(m, "usage").t = "object" THEN Get(Get(m, "usage"), "output_tokens") ELSE Undef

\* the event data carries delta.key
CarriesDelta(data, key) ==
  Get(data, "delta").t = "object" /\ HasKey(Get(data, "delta"), key)

\* the event data carries usage.output_tokens
CarriesOutputTokens(data) ==
  Get(data, "usage").t = "object" /\ HasKey(Get(data, "usage"), "output_tokens")

\* C14: a message_delta event overwrites stop_reason and stop_sequence only
\* when it carries them and changes usage.output_tokens only when it carries
\* usage.output_tokens; otherwise those fields stay, every other field of
\* the message and every block stays, and decoding does not abort.
C14_MessageDeltaFrame ==
  [][MessageDelta =>
       \A data \in MessageDeltaData :
         dec' = Step(dec, Event("message_delta", data)) =>
           /\ \A key \in {"stop_reason", "stop_sequence"} :
                Get(dec'.message, key) # Get(dec.message, key) => CarriesDelta(data, key)
           /\ OutputTokens(dec'.message) # OutputTokens(dec.message)
                => CarriesOutputTokens(data)
           /\ \A key \in {"model", "id", "type", "role", "content"} :
                Get(dec'.message, key) = Get(dec.message, key)
           /\ dec'.contentBlocks = dec.contentBlocks
           /\ ~CarriesOutputTokens(data) => dec'.status = "running"]_vars

(***************************************************************************)
(* Field Sanitizer: removeUnwantedFields                                   *)
(***************************************************************************)
\* only the first entry of the deny-list is tested
UnwantedFieldsFirstOnly == {"signature"}

UnwantedFields == {"signature", "cache_control"}

\* the keys a for...in loop visits: the own keys in insertion order, then
\* the keys of the prototype chain that no own key shadows
RECURSIVE ForInKeys(_)
ForInKeys(o) ==
  CASE o.t = "array" -> [i \in 1..Len(o.a) |-> IndexKey(i)]
    [] o.t = "object" ->
         LET own == [i \in 1..Len(o.kv) |-> o.kv[i].k]
             Inherited(key) == ~HasKey(o, key) IN
         IF HasProto(o) THEN own \o SelectSeq(ForInKeys(o.proto), Inherited) ELSE own
    [] OTHER -> <<>>

\* cleaned[key] = val: the key __proto__ reaches the setter of
\* Object.prototype, which replaces the prototype by an object or null and
\* ignores any other value; every other key becomes an own property. An
\* object whose prototype is not Object.prototype carries it in proto
Assign(cleaned, key, val) ==
  IF key # "__proto__" THEN Put(cleaned, key, val)
  ELSE IF HasProto(cleaned) /\ cleaned.proto = Null THEN Put(cleaned, key, val)
  ELSE IF TypeOf(val) = "object" THEN [t |-> "object", kv |-> cleaned.kv, proto |-> val]
  ELSE cleaned

RECURSIVE RemoveUnwantedFields(_)
RECURSIVE CleanKeys(_, _, _)

\* the for...in loop of removeUnwantedFields over the keys still to visit;
\* cleaned after the first key is bound as a value (next) before the loop
\* goes on with it
CleanKeys(obj, keys, cleaned) ==
  IF keys = <<>> THEN cleaned
  ELSE LET key == Head(keys) IN
       CHOOSE end \in
         {CleanKeys(obj, Tail(keys), next) :
            next \in {IF key \in UnwantedFields THEN cleaned
                      ELSE Assign(cleaned, key, RemoveUnwantedFields(Get(obj, key)))}} :
         TRUE

\* the recursion stops at the first level of nesting
RemoveUnwantedFieldsShallow(obj) ==
  IF obj.t = "object"
  THEN LET Wanted(p) == p.k \notin UnwantedFields IN Obj(SelectSeq(obj.kv, Wanted))
  ELSE obj

RemoveUnwantedFields(obj) ==
  CASE obj.t = "array" ->
         Arr([i \in 1..Len(obj.a) |-> RemoveUnwantedFields(obj.a[i])])
    [] obj.t = "object" -> CleanKeys(obj, ForInKeys(obj), EmptyObj)
    [] OTHER -> obj

(***************************************************************************)
(* The sanitizer's inputs are the JSON documents JSON.parse can return,    *)
(* grown one node at a time: doc is wrapped in an array or in an object    *)
(* under some key, or a primitive is added next to its content. An object  *)
(* JSON.parse returns holds the key __proto__ as an own property.          *)
(***************************************************************************)
MaxNodes == 4

DocKeys == {"signature", "cache_control", "a", "__proto__"}

Primitives == {Num(1), Null}

RECURSIVE Nodes(_)
RECURSIVE NodesOfSeq(_)
NodesOfSeq(q) == IF q = <<>> THEN 0 ELSE Nodes(Head(q)) + NodesOfSeq(Tail(q))

\* the number of values in a document
Nodes(v) ==
  CASE v.t = "array" -> 1 + NodesOfSeq(v.a)
    [] v.t = "object" -> 1 + NodesOfSeq([i \in 1..Len(v.kv) |-> v.kv[i].v])
    [] OTHER -> 1

SanInit ==
  /\ doc \in Primitives \union {EmptyObj, Arr(<<>>)}
  /\ san = [status |-> "building"]
  /\ DecIdle
  /\ LoadIdle
  /\ RenIdle
  /\ MatIdle

WrapInArray ==
  /\ san.status = "building"
  /\ Nodes(doc) < MaxNodes
  /\ doc' = Arr(<<doc>>)
  /\ UNCHANGED <<san, decVars, loadVars, renVars, systemPrompts, prompt, matchResult>>

WrapInObject ==
  /\ san.status = "building"
  /\ Nodes(doc) < MaxNodes
  /\ \E key \in DocKeys : doc' = Obj(<<KV(key, doc)>>)
  /\ UNCHANGED <<san, decVars, loadVars, renVars, systemPrompts, prompt, matchResult>>

AddElement ==
  /\ san.status = "building"
  /\ Nodes(doc) < MaxNodes
  /\ doc.t = "array"
  /\ \E p \in Primitives :
       \/ doc' = Arr(Append(doc.a, p))
       \/ doc' = Arr(<<p>> \o doc.a)
  /\ UNCHANGED <<san, decVars, loadVars, renVars, systemPrompts, prompt, matchResult>>

AddMember ==
  /\ san.status = "building"
  /\ Nodes(doc) < MaxNodes
  /\ doc.t = "object"
  /\ \E key \in DocKeys, p \in Primitives :
       /\ ~HasKey(doc, key)
       /\ \/ doc' = Obj(Append(doc.kv, KV(key, p)))
          \/ doc' = Obj(<<KV(key, p)>> \o doc.kv)
  /\ UNCHANGED <<san, decVars, loadVars, renVars, systemPrompts, prompt, matchResult>>

\* the sanitizer is applied to doc, and again to its own result
Sanitize ==
  /\ san.status = "building"
  /\ san' = [status |-> "sanitized",
             once |-> RemoveUnwantedFields(doc),
             twice |-> RemoveUnwantedFields(RemoveUnwantedFields(doc))]
  /\ UNCHANGED <<doc, decVars, loadVars, renVars, systemPrompts, prompt, matchResult>>

SpecSanitizer ==
  SanInit /\ [][WrapInArray \/ WrapInObject \/ AddElement \/ AddMember \/ Sanitize]_vars

(***************************************************************************)
(* Properties of the sanitizer                                             *)
(***************************************************************************)
\* some key of the deny-list occurs in v: as an own key at any depth, or in
\* a prototype
RECURSIVE HasDeniedKey(_)
HasDeniedKey(v) ==
  CASE v.t = "array" -> \E i \in 1..Len(v.a) : HasDeniedKey(v.a[i])
    [] v.t = "object" ->
         \/ \E i \in 1..Len(v.kv) :
              v.kv[i].k \in {"signature", "cache_control"} \/ HasDeniedKey(v.kv[i].v)
         \/ HasProto(v) /\ HasDeniedKey(v.proto)
    [] OTHER -> FALSE

\* C7: no key named signature or cache_control occurs at any depth of the
\* sanitizer's result, for every JSON value.
C7_NoDeniedKeyInResult ==
  san.status = "sanitized" => ~HasDeniedKey(san.once)

C7_Witness ==
  /\ san.status = "sanitized"
  /\ doc = Arr(<< Obj(<< KV("a", Obj(<< KV("cache_control", Num(1)) >>)) >>) >>)
  /\ san.once = Arr(<< Obj(<< KV("a", EmptyObj) >>) >>)

\* the JSON document of a value: what JSON.stringify writes of it, its own
\* properties at every depth
RECURSIVE Jsonify(_)
Jsonify(v) ==
  CASE v.t = "array" -> Arr([i \in 1..Len(v.a) |-> Jsonify(v.a[i])])
    [] v.t = "object" ->
         Obj([i \in 1..Len(v.kv) |-> KV(v.kv[i].k, Jsonify(v.kv[i].v))])
    [] OTHER -> v

\* v with the members named signature and cache_control deleted at every
\* depth, and nothing else changed
RECURSIVE WithoutDenied(_)
WithoutDenied(v) ==
  CASE v.t = "array" -> Arr([i \in 1..Len(v.a) |-> WithoutDenied(v.a[i])])
    [] v.t = "object" ->
         LET Kept(p) == p.k \notin {"signature", "cache_control"}
             kept == SelectSeq(v.kv, Kept) IN
         Obj([i \in 1..Len(kept) |-> KV(kept[i].k, WithoutDenied(kept[i].v))])
    [] OTHER -> v

\* C8: the sanitizer is idempotent (a second pass returns an equal value)
\* and structure-preserving (one pass returns the input with exactly the
\* deny-listed keys deleted: every other key, value, array length and order
\* is kept).
C8_IdempotentAndStructurePreserving ==
  san.status = "sanitized" =>
    /\ Jsonify(san.twice) = Jsonify(san.once)
    /\ Jsonify(san.once) = WithoutDenied(doc)

(***************************************************************************)
(* Trace Loader: parseLLMFile and parseExample                             *)
(*                                                                         *)
(* An example directory is [id, exists, entries]; a directory entry is     *)
(* [name, isDir, body]. A name is described by what parseLLMFile reads     *)
(* from it: the number in square brackets (stamp, <<>> when there is       *)
(* none), the Request or Response marker, whether it holds                 *)
(* api.anthropic.com (host), the endpoint tokens after it, and whether it  *)
(* ends in .json. A body is described by its text, by what JSON.parse      *)
(* makes of it, and by the events the line scan of parseSSEResponse finds  *)
(* in it. Reading a file never fails.                                      *)
(***************************************************************************)
Name(stamp, marker, host, path, json) ==
  [stamp |-> stamp, marker |-> marker, host |-> host, path |-> path, json |-> json]

\* filename.match(/\[(\d+)\]/), parseInt of the match, 0 without one
TimestampOf(name) == IF name.stamp = <<>> THEN 0 ELSE name.stamp[1]

\* filename.toLowerCase().includes('request'): the test is on the whole
\* file name, the marker and the endpoint part alike
TypeOfName(name) ==
  LET IncludesRequest == {"Request", "request", "REQUEST", "requests"} IN
  IF \/ name.marker \in IncludesRequest
     \/ \E i \in 1..Len(name.path) : name.path[i] \in IncludesRequest
  THEN "request" ELSE "response"

\* the part after api.anthropic.com_ (without a final .json), _ made /
EndpointOf(name) ==
  LET RECURSIVE SlashJoin(_)
      SlashJoin(path) ==
        IF path = <<>> THEN <<>> ELSE <<"/", Head(path)>> \o SlashJoin(Tail(path)) IN
  IF name.host /\ name.path # <<>>
  THEN Str(SlashJoin(name.path) \o (IF name.json THEN <<>> ELSE <<".txt">>))
  ELSE Str(<<"unknown">>)

\* the payload left by an exception inside the try block; Raised stands for
\* an exception that leaves parseLLMFile
Raised == [t |-> "raised"]

\* no catch clause: the exception leaves parseLLMFile
CatchMissing(file) == Raised

\* catch (e) { data = { raw: content } }
Catch(file) == Obj(<< KV("raw", Str(<<file.body.text>>)) >>)

\* the decoder chosen by the body: JSON.parse for a JSON document
DecodeByBody(file) ==
  IF file.body.parse.ok THEN file.body.parse
  ELSE CHOOSE parsed \in
         {[ok |-> sse.status = "returned", v |-> sse.message] :
            sse \in {ParseSSEResponse(file.body.events)}} : TRUE

\* the decoder chosen by the file extension: [ok, v], ok false when
\* JSON.parse or parseSSEResponse throws
Decode(file) ==
  IF file.name.json THEN file.body.parse
  ELSE CHOOSE parsed \in
         {[ok |-> sse.status = "returned", v |-> sse.message] :
            sse \in {ParseSSEResponse(file.body.events)}} : TRUE

\* no filter: the sanitized data is the payload
FilterFieldsOmitted(type, data) == IF ReadThrows(data) THEN Raised ELSE data

\* no response branch: a response keeps every sanitized field
FilterFieldsResponseWhole(type, data) ==
  LET ImportantFields == <<"model", "messages", "tools", "system", "thinking">>
      RECURSIVE KeepFields(_, _, _)
      KeepFields(d, fields, filtered) ==
        IF fields = <<>> THEN filtered
        ELSE KeepFields(d, Tail(fields),
                        IF Get(d, Head(fields)) # Undef
                        THEN Put(filtered, Head(fields), Get(d, Head(fields)))
                        ELSE filtered) IN
  IF ReadThrows(data) THEN Raised
  ELSE IF type = "request"
       THEN KeepFields(data, ImportantFields, EmptyObj)
       ELSE data

\* the field filter of parseLLMFile on the sanitized data; filteredData of
\* a request: the important fields of data that are not undefined
FilterFields(type, data) ==
  LET ImportantFields == <<"model", "messages", "tools", "system", "thinking">>
      RECURSIVE KeepFields(_, _, _)
      KeepFields(d, fields, filtered) ==
        IF fields = <<>> THEN filtered
        ELSE KeepFields(d, Tail(fields),
                        IF Get(d, Head(fields)) # Undef
                        THEN Put(filtered, Head(fields), Get(d, Head(fields)))
                        ELSE filtered) IN
  IF ReadThrows(data) THEN Raised
  ELSE IF type = "request"
       THEN KeepFields(data, ImportantFields, EmptyObj)
       ELSE IF Get(data, "content") # Undef
            THEN Obj(<< KV("content", Get(data, "content")) >>)
            ELSE data

\* the try block of parseLLMFile: the data it leaves, or Raised
TryDecode(file) ==
  CHOOSE out \in
    {IF ~parsed.ok THEN Raised
     ELSE CHOOSE filtered \in
            {FilterFields(TypeOfName(file.name), data) :
               data \in {RemoveUnwantedFields(parsed.v)}} : TRUE :
       parsed \in {Decode(file)}} : TRUE

ParseLLMFile(file) ==
  CHOOSE trace \in
    {[timestamp |-> TimestampOf(file.name),
      type |-> TypeOfName(file.name),
      endpoint |-> EndpointOf(file.name),
      data |-> IF data = Raised THEN Catch(file) ELSE data,
      filePath |-> file.name] : data \in {TryDecode(file)}} : TRUE

\* f.includes('api.anthropic.com') && !statSync(f).isDirectory()
IsTraceFile(file) == file.name.host /\ ~file.isDir

\* the traces are left in the order of the directory listing
SortOmitted(traces) == traces

\* a sort that is not stable: each trace goes before the traces of its
\* own timestamp
SortUnstable(traces) ==
  LET RECURSIVE InsertByTimestamp(_, _)
      InsertByTimestamp(sorted, tr) ==
        IF sorted = <<>> THEN <<tr>>
        ELSE IF Head(sorted).timestamp < tr.timestamp
             THEN <<Head(sorted)>> \o InsertByTimestamp(Tail(sorted), tr)
             ELSE <<tr>> \o sorted
      RECURSIVE SortFrom(_, _)
      SortFrom(sorted, rest) ==
        IF rest = <<>> THEN sorted
        ELSE SortFrom(InsertByTimestamp(sorted, Head(rest)), Tail(rest)) IN
  SortFrom(<<>>, traces)

\* traces.sort((a, b) => a.timestamp - b.timestamp): a stable sort, each
\* trace going after every trace whose timestamp is not greater than its own
SortByTimestamp(traces) ==
  LET RECURSIVE InsertByTimestamp(_, _)
      InsertByTimestamp(sorted, tr) ==
        IF sorted = <<>> THEN <<tr>>
        ELSE IF Head(sorted).timestamp <= tr.timestamp
             THEN <<Head(sorted)>> \o InsertByTimestamp(Tail(sorted), tr)
             ELSE <<tr>> \o sorted
      RECURSIVE SortFrom(_, _)
      SortFrom(sorted, rest) ==
        IF rest = <<>> THEN sorted
        ELSE SortFrom(InsertByTimestamp(sorted, Head(rest)), Tail(rest)) IN
  SortFrom(<<>>, traces)

\* no existence test: readdirSync throws for a directory that is missing
ParseExampleUnchecked(d) ==
  LET llmFiles == SelectSeq(d.entries, IsTraceFile)
      traces == [i \in 1..Len(llmFiles) |-> ParseLLMFile(llmFiles[i])] IN
  IF ~d.exists \/ \E i \in 1..Len(traces) : traces[i].data = Raised
  THEN [status |-> "raised"]
  ELSE [status |-> "returned", id |-> d.id, llmTraces |-> SortByTimestamp(traces),
        cliLog |-> Null]

\* a decoder whose block map outlives the call: each stream is decoded into
\* the blocks the streams listed before it have left
ParseExampleSharedBlocks(d) ==
  IF ~d.exists
  THEN [status |-> "returned", id |-> d.id, llmTraces |-> <<>>, cliLog |-> Null,
        levels |-> [main |-> <<>>, secondRank |-> <<>>]]
  ELSE LET llmFiles == SelectSeq(d.entries, IsTraceFile)
           RECURSIVE LeftBlocks(_)
           LeftBlocks(n) ==
             IF n = 0 THEN DecoderStart.contentBlocks
             ELSE IF llmFiles[n].name.json THEN LeftBlocks(n - 1)
                  ELSE DecodeEvents([DecoderStart EXCEPT !.contentBlocks = LeftBlocks(n - 1)],
                                    llmFiles[n].body.events).contentBlocks
           TraceOf(n) ==
             LET file == llmFiles[n]
                 sse == Finish(DecodeEvents(
                          [DecoderStart EXCEPT !.contentBlocks = LeftBlocks(n - 1)],
                          file.body.events))
                 parsed == IF file.name.json THEN file.body.parse
                           ELSE [ok |-> sse.status = "returned", v |-> sse.message]
                 data == IF ~parsed.ok THEN Raised
                         ELSE FilterFields(TypeOfName(file.name),
                                           RemoveUnwantedFields(parsed.v)) IN
             [timestamp |-> TimestampOf(file.name),
              type |-> TypeOfName(file.name),
              endpoint |-> EndpointOf(file.name),
              data |-> IF data = Raised THEN Catch(file) ELSE data,
              filePath |-> file.name]
           traces == [i \in 1..Len(llmFiles) |-> TraceOf(i)] IN
       [status |-> "returned", id |-> d.id, llmTraces |-> SortByTimestamp(traces),
        cliLog |-> Null]

\* parseExample(exampleId) on the directory d = [id, exists, entries] of
\* that id, entries in the order readdirSync lists them
ParseExample(d) ==
  IF ~d.exists
  THEN [status |-> "returned", id |-> d.id, llmTraces |-> <<>>, cliLog |-> Null,
        levels |-> [main |-> <<>>, secondRank |-> <<>>]]
  ELSE LET llmFiles == SelectSeq(d.entries, IsTraceFile)
           traces == [i \in 1..Len(llmFiles) |-> ParseLLMFile(llmFiles[i])] IN
       IF \E i \in 1..Len(traces) : traces[i].data = Raised
       THEN [status |-> "raised"]
       ELSE [status |-> "returned", id |-> d.id, llmTraces |-> SortByTimestamp(traces),
             cliLog |-> Null]

(***************************************************************************)
(* The files of the model's example directories                            *)
(***************************************************************************)
MaxFiles == 3

\* the files a directory may hold: bodies that are JSON, streams, broken
\* streams or garbage, under the file names parseLLMFile tells apart
FilePool ==
  LET NotJson == [ok |-> FALSE, v |-> Undef]
      RequestBody ==
        [text |-> "request.json",
         parse |-> [ok |-> TRUE, v |->
           Obj(<< KV("model", Str(<<"claude">>)),
                  KV("max_tokens", Num(1)),
                  KV("system", Arr(<< Obj(<< KV("type", Str(<<"text">>)),
                                             KV("text", Str(<<"S">>)),
                                             KV("cache_control", EmptyObj) >>) >>)),
                  KV("messages", Arr(<< Obj(<< KV("role", Str(<<"user">>)),
                                               KV("content", Str(<<"hi">>)) >>) >>)) >>)],
         events |-> <<>>]
      ResponseBody ==
        [text |-> "response.json",
         parse |-> [ok |-> TRUE, v |->
           Obj(<< KV("id", Str(<<"msg_01">>)),
                  KV("content", Arr(<< Obj(<< KV("type", Str(<<"thinking">>)),
                                              KV("thinking", Str(<<"t">>)),
                                              KV("signature", Str(<<"sig">>)) >>) >>)) >>)],
         events |-> <<>>]
      \* a recorded response without content
      ErrorBody ==
        [text |-> "error.json",
         parse |-> [ok |-> TRUE, v |->
           Obj(<< KV("type", Str(<<"error">>)),
                  KV("error", Obj(<< KV("type", Str(<<"overloaded_error">>)) >>)) >>)],
         events |-> <<>>]
      GarbageBody == [text |-> "garbage", parse |-> NotJson, events |-> <<>>]
      NullBody == [text |-> "null", parse |-> [ok |-> TRUE, v |-> Null], events |-> <<>>]
      StreamBody ==
        [text |-> "stream", parse |-> NotJson,
         events |-> << Event("message_start", MessageStartData(Usage(1))),
                       Event("content_block_start", BlockData(0, "content_block", TextBlock)),
                       Event("content_block_delta", BlockData(0, "delta", TextDelta)),
                       Event("content_block_stop", StopData(0)),
                       Event("message_stop", MessageStopData) >>]
      \* a stream whose message_start data line is not JSON
      BrokenStreamBody ==
        [text |-> "broken stream", parse |-> NotJson,
         events |-> << Event("message_start", Str(<<"{broken">>)),
                       Event("content_block_delta", BlockData(0, "delta", TextDelta)) >>]
      \* a stream whose only block is opened at index 1
      LateStreamBody ==
        [text |-> "late stream", parse |-> NotJson,
         events |-> << Event("message_start", MessageStartData(Usage(1))),
                       Event("content_block_start", BlockData(1, "content_block", TextBlock)),
                       Event("content_block_delta", BlockData(1, "delta", TextDelta)),
                       Event("content_block_stop", StopData(1)),
                       Event("message_stop", MessageStopData) >>]
      Messages == <<"v1", "messages">>
      File(name, body) == [name |-> name, isDir |-> FALSE, body |-> body] IN
  { File(Name(<<1>>, "Request", TRUE, Messages, TRUE), RequestBody),
    File(Name(<<1>>, "Response", TRUE, Messages, FALSE), StreamBody),
    File(Name(<<2>>, "Request", TRUE, Messages, TRUE), GarbageBody),
    File(Name(<<2>>, "Response", TRUE, Messages, FALSE), BrokenStreamBody),
    File(Name(<<3>>, "Request", TRUE, Messages, FALSE), RequestBody),
    File(Name(<<5>>, "request", TRUE, Messages, TRUE), RequestBody),
    File(Name(<<3>>, "Response", TRUE, Messages, TRUE), NullBody),
    File(Name(<<>>, "Response", TRUE, Messages, TRUE), ResponseBody),
    File(Name(<<4>>, "Response", TRUE, Messages, TRUE), ErrorBody),
    File(Name(<<6>>, "Response", TRUE, Messages, FALSE), LateStreamBody),
    File(Name(<<7>>, "Response", TRUE, <<"v1", "requests">>, TRUE), ResponseBody),
    File(Name(<<>>, "cli", FALSE, <<>>, FALSE), GarbageBody),
    [name |-> Name(<<4>>, "Request", TRUE, <<"backup">>, FALSE), isDir |-> TRUE,
     body |-> GarbageBody] }

LoadInit ==
  /\ dir \in {[id |-> id, exists |-> e, entries |-> <<>>] :
                id \in {"01_explain-this-repo", "02_absent"}, e \in BOOLEAN}
  /\ loaded = [status |-> "idle"]
  /\ DecIdle
  /\ SanIdle
  /\ RenIdle
  /\ MatIdle

\* the directory listing gets one more entry, of a name it does not hold
AddEntry ==
  /\ loaded.status = "idle"
  /\ dir.exists
  /\ Len(dir.entries) < MaxFiles
  /\ \E file \in FilePool :
       /\ \A i \in 1..Len(dir.entries) : dir.entries[i].name # file.name
       /\ dir' = [dir EXCEPT !.entries = Append(@, file)]
  /\ UNCHANGED <<loaded, decVars, sanVars, renVars, systemPrompts, prompt, matchResult>>

LoadExample ==
  /\ loaded.status = "idle"
  /\ loaded' = ParseExample(dir)
  /\ UNCHANGED <<dir, decVars, sanVars, renVars, systemPrompts, prompt, matchResult>>

SpecLoader == LoadInit /\ [][AddEntry \/ LoadExample]_vars

(***************************************************************************)
(* scanExamples: dir is the examples directory, its entries the Dirents    *)
(* of readdirSync (name, isDir), loaded what the scan returns              *)
(***************************************************************************)
\* the directories without this test are examples too
ScanExamplesOfAnyKind(d) ==
  IF ~d.exists THEN [status |-> "returned", examples |-> <<>>]
  ELSE LET Digits == {"0", "1", "2", "3", "4", "5", "6", "7", "8", "9"}
           RECURSIVE AfterDigits(_)
           AfterDigits(name) ==
             IF name # <<>> /\ Head(name) \in Digits THEN AfterDigits(Tail(name))
             ELSE name
           IsExample(entry) ==
             /\ entry.name # <<>> /\ Head(entry.name) \in Digits
             /\ AfterDigits(entry.name) # <<>> /\ Head(AfterDigits(entry.name)) = "_"
           kept == SelectSeq(d.entries, IsExample) IN
       [status |-> "returned",
        examples |-> [i \in 1..Len(kept) |-> [id |-> Str(kept[i].name)]]]

\* scanExamples() on the examples directory d = [exists, entries]: the
\* entries that are directories and match /^\d+_/, each with its name as id
\* and the name without the prefix, hyphens made blanks, as display name
ScanExamples(d) ==
  IF ~d.exists THEN [status |-> "returned", examples |-> <<>>]
  ELSE LET Digits == {"0", "1", "2", "3", "4", "5", "6", "7", "8", "9"}
           RECURSIVE AfterDigits(_)
           AfterDigits(name) ==
             IF name # <<>> /\ Head(name) \in Digits THEN AfterDigits(Tail(name))
             ELSE name
           IsExample(entry) ==
             /\ entry.isDir
             /\ entry.name # <<>> /\ Head(entry.name) \in Digits
             /\ AfterDigits(entry.name) # <<>> /\ Head(AfterDigits(entry.name)) = "_"
           Blanked(name) ==
             [i \in 1..Len(name) |-> IF name[i] = "-" THEN " " ELSE name[i]]
           kept == SelectSeq(d.entries, IsExample) IN
       [status |-> "returned",
        examples |-> [i \in 1..Len(kept) |->
                        [id |-> Str(kept[i].name),
                         name |-> Str(Blanked(Tail(AfterDigits(kept[i].name))))]]]

\* the examples directory gets one more entry, of a name it does not hold
AddDirent ==
  LET EntryNames == { <<"0", "1", "_", "explain", "-", "repo">>, <<"2", "_">>,
                      <<"0", "1", "explain">>, <<"_", "0", "1">>, <<"explain">>,
                      <<"1", "a", "_", "plan">>, <<".DS_Store">> } IN
  /\ loaded.status = "idle"
  /\ dir.exists
  /\ Len(dir.entries) < MaxFiles
  /\ \E name \in EntryNames, isDir \in BOOLEAN :
       /\ \A i \in 1..Len(dir.entries) : dir.entries[i].name # name
       /\ dir' = [dir EXCEPT !.entries = Append(@, [name |-> name, isDir |-> isDir])]
  /\ UNCHANGED <<loaded, decVars, sanVars, renVars, systemPrompts, prompt, matchResult>>

Scan ==
  /\ loaded.status = "idle"
  /\ loaded' = ScanExamples(dir)
  /\ UNCHANGED <<dir, decVars, sanVars, renVars, systemPrompts, prompt, matchResult>>

ScanInit ==
  /\ dir \in {[id |-> "examples", exists |-> e, entries |-> <<>>] : e \in BOOLEAN}
  /\ loaded = [status |-> "idle"]
  /\ DecIdle
  /\ SanIdle
  /\ RenIdle
  /\ MatIdle

SpecScan == ScanInit /\ [][AddDirent \/ Scan]_vars

(***************************************************************************)
(* Properties of the trace loader                                          *)
(***************************************************************************)
Loaded == loaded.status = "returned"

\* the entries of the listing that are trace files of the given kind
TraceFilesOfType(type) ==
  {i \in 1..Len(dir.entries) :
     IsTraceFile(dir.entries[i]) /\ TypeOfName(dir.entries[i].name) = type}

NonDecreasing(traces) ==
  \A i, j \in 1..Len(traces) :
    i < j => traces[i].timestamp <= traces[j].timestamp

\* C5: loading a directory that holds N request trace files and M response
\* trace files returns exactly N+M traces, in non-decreasing timestamp
\* order, whatever the order in which the directory lists its files.
C5_AllTracesInTimestampOrder ==
  (Loaded /\ dir.exists) =>
    /\ Len(loaded.llmTraces) =
         Cardinality(TraceFilesOfType("request"))
           + Cardinality(TraceFilesOfType("response"))
    /\ NonDecreasing(loaded.llmTraces)

\* a load of request and response files that the directory lists out of
\* timestamp order
C5_Witness ==
  /\ Loaded
  /\ Len(dir.entries) = MaxFiles
  /\ TraceFilesOfType("request") # {}
  /\ TraceFilesOfType("response") # {}
  /\ Len(loaded.llmTraces) >= 2
  /\ \E i, j \in 1..Len(dir.entries) :
       /\ i < j
       /\ IsTraceFile(dir.entries[i]) /\ IsTraceFile(dir.entries[j])
       /\ TimestampOf(dir.entries[i].name) > TimestampOf(dir.entries[j].name)

\* decoding the file fails: its text is not what its decoder accepts, or
\* the decoded value has no fields to read
DecodingFails(file) ==
  IF file.name.json
  THEN ~file.body.parse.ok \/ file.body.parse.v \in {Null, Undef}
  ELSE ParseSSEResponse(file.body.events).status # "returned"

RawTrace(file) ==
  [timestamp |-> TimestampOf(file.name),
   type |-> TypeOfName(file.name),
   endpoint |-> EndpointOf(file.name),
   data |-> Obj(<< KV("raw", Str(<<file.body.text>>)) >>),
   filePath |-> file.name]

\* the sequence without its k-th element
Without(seq, k) ==
  [i \in 1..(Len(seq) - 1) |-> IF i < k THEN seq[i] ELSE seq[i + 1]]

\* C6: the load never fails; a trace file whose decoding fails still has
\* its trace, with the timestamp, kind and endpoint of its name and the raw
\* text as payload, and the other traces are what the load returns for the
\* directory without that file.
C6_DecodeFailureIsolated ==
  /\ loaded.status \in {"idle", "returned"}
  /\ (Loaded /\ dir.exists) =>
       \A k \in 1..Len(dir.entries) :
         (IsTraceFile(dir.entries[k]) /\ DecodingFails(dir.entries[k])) =>
           \E n \in 1..Len(loaded.llmTraces) :
             /\ loaded.llmTraces[n] = RawTrace(dir.entries[k])
             /\ Without(loaded.llmTraces, n) =
                  ParseExample([dir EXCEPT !.entries = Without(@, k)]).llmTraces

\* a load of a directory that holds an undecodable JSON file, a stream that
\* makes parseSSEResponse throw, and a file that decodes
C6_Witness ==
  /\ Loaded
  /\ \E k \in 1..Len(dir.entries) :
       /\ IsTraceFile(dir.entries[k]) /\ dir.entries[k].name.json
       /\ DecodingFails(dir.entries[k])
  /\ \E k \in 1..Len(dir.entries) :
       /\ IsTraceFile(dir.entries[k]) /\ ~dir.entries[k].name.json
       /\ DecodingFails(dir.entries[k])
  /\ \E n \in 1..Len(loaded.llmTraces) :
       Get(loaded.llmTraces[n].data, "raw") = Undef

\* the file of the listing that a returned trace was read from
FileOf(trace) ==
  dir.entries[CHOOSE k \in 1..Len(dir.entries) : dir.entries[k].name = trace.filePath]

\* the returned traces of the given kind whose file was decoded
ParsedTraces(type) ==
  {n \in 1..Len(loaded.llmTraces) :
     /\ loaded.llmTraces[n].type = type
     /\ ~DecodingFails(FileOf(loaded.llmTraces[n]))}

\* the own keys of an object
Keys(o) == {o.kv[i].k : i \in 1..Len(o.kv)}

\* what the decoder of the file's extension and the sanitizer make of it
Sanitized(file) == RemoveUnwantedFields(Decode(file).v)

\* C15: the payload of every request trace that was decoded has no key
\* outside model, messages, tools, system and thinking, and holds under
\* each of these the sanitized value the recorded request has under it.
C15_RequestKeepsImportantFields ==
  (Loaded /\ dir.exists) =>
    \A n \in ParsedTraces("request") :
      LET data == loaded.llmTraces[n].data
          recorded == Sanitized(FileOf(loaded.llmTraces[n])) IN
      /\ data.t = "object"
      /\ Keys(data) \subseteq {"model", "messages", "tools", "system", "thinking"}
      /\ \A field \in {"model", "messages", "tools", "system", "thinking"} :
           Get(data, field) = Get(recorded, field)

\* a request loaded from a JSON file that records max_tokens next to
\* model, system and messages
C15_Witness ==
  /\ Loaded
  /\ \E n \in ParsedTraces("request") :
       /\ FileOf(loaded.llmTraces[n]).name.json
       /\ HasKey(FileOf(loaded.llmTraces[n]).body.parse.v, "max_tokens")
       /\ Keys(loaded.llmTraces[n].data) = {"model", "messages", "system"}

\* C16 as stated: the payload of every response trace that was decoded has
\* content as its only key, for a JSON file and for an event stream,
\* whatever the recorded response holds.
C16_ResponseOnlyContent ==
  (Loaded /\ dir.exists) =>
    \A n \in ParsedTraces("response") :
      /\ loaded.llmTraces[n].data.t = "object"
      /\ Keys(loaded.llmTraces[n].data) = {"content"}

\* C16 amended: the payload of every response trace that was decoded to a
\* value with a content field has content as its only key, with the
\* sanitized recorded content under it, for a JSON file and for an event
\* stream, whatever other fields the recorded response holds.
C16_ResponseWithContentOnlyContent ==
  (Loaded /\ dir.exists) =>
    \A n \in ParsedTraces("response") :
      LET data == loaded.llmTraces[n].data
          recorded == Sanitized(FileOf(loaded.llmTraces[n])) IN
      Get(recorded, "content") # Undef =>
        /\ data.t = "object"
        /\ Keys(data) = {"content"}
        /\ Get(data, "content") = Get(recorded, "content")

\* a load of a JSON response that records an id next to its content and of
\* a response decoded from an event stream, both reduced to content
C16_Witness ==
  /\ Loaded
  /\ \E n \in ParsedTraces("response") :
       /\ FileOf(loaded.llmTraces[n]).name.json
       /\ HasKey(FileOf(loaded.llmTraces[n]).body.parse.v, "id")
       /\ Keys(loaded.llmTraces[n].data) = {"content"}
  /\ \E n \in ParsedTraces("response") :
       /\ ~FileOf(loaded.llmTraces[n]).name.json
       /\ Keys(loaded.llmTraces[n].data) = {"content"}
       /\ Len(Get(loaded.llmTraces[n].data, "content").a) = 1

\* pairs of returned traces read from files of one body and one kind
SameBodyAndKind(n, m) ==
  /\ FileOf(loaded.llmTraces[n]).body = FileOf(loaded.llmTraces[m]).body
  /\ loaded.llmTraces[n].type = loaded.llmTraces[m].type

\* C17 as stated: the decoding mode follows the body, so two trace files
\* with the same body and kind yield the same payload.
C17_SameBodySamePayload ==
  (Loaded /\ dir.exists) =>
    \A n, m \in 1..Len(loaded.llmTraces) :
      SameBodyAndKind(n, m) => loaded.llmTraces[n].data = loaded.llmTraces[m].data

\* C17 amended: the decoding mode follows the file name, JSON.parse for a
\* name that ends in .json and the Event Stream Decoder for any other, so
\* two trace files with the same body and kind whose names both end in
\* .json, or both do not, yield the same payload.
C17_ModeFromExtension ==
  (Loaded /\ dir.exists) =>
    /\ \A n \in 1..Len(loaded.llmTraces) :
         LET file == FileOf(loaded.llmTraces[n])
             decoded == IF file.name.json THEN file.body.parse.v
                        ELSE ParseSSEResponse(file.body.events).message IN
         ~DecodingFails(file) =>
           loaded.llmTraces[n].data =
             FilterFields(loaded.llmTraces[n].type, RemoveUnwantedFields(decoded))
    /\ \A n, m \in 1..Len(loaded.llmTraces) :
         (/\ SameBodyAndKind(n, m)
          /\ FileOf(loaded.llmTraces[n]).name.json = FileOf(loaded.llmTraces[m]).name.json)
           => loaded.llmTraces[n].data = loaded.llmTraces[m].data

\* a load of three files of one JSON body and kind: two named .json, with
\* the recorded messages as payload, and one not, decoded as a stream
C17_Witness ==
  /\ Loaded
  /\ \E n, m, o \in 1..Len(loaded.llmTraces) :
       /\ n # m
       /\ SameBodyAndKind(n, m) /\ SameBodyAndKind(n, o)
       /\ FileOf(loaded.llmTraces[n]).name.json
       /\ FileOf(loaded.llmTraces[m]).name.json
       /\ ~FileOf(loaded.llmTraces[o]).name.json
       /\ loaded.llmTraces[n].data = loaded.llmTraces[m].data
       /\ HasKey(loaded.llmTraces[n].data, "messages")
       /\ Keys(loaded.llmTraces[o].data) = {"model"}

\* C18: loading an example whose directory does not exist raises nothing
\* and returns a result with the requested id and an empty trace list.
C18_MissingDirectoryLoadsEmpty ==
  (~dir.exists /\ loaded.status # "idle") =>
    /\ loaded.status = "returned"
    /\ loaded.id = dir.id
    /\ loaded.llmTraces = <<>>

\* the load of the example 02_absent, which has no directory
C18_Witness ==
  /\ ~dir.exists
  /\ dir.id = "02_absent"
  /\ Loaded
  /\ loaded.id = "02_absent"
  /\ loaded.llmTraces = <<>>

\* the place in the directory listing of the file a trace was read from
ListingIndex(trace) ==
  CHOOSE k \in 1..Len(dir.entries) : dir.entries[k].name = trace.filePath

\* C19: returned traces of equal timestamp are in the order in which the
\* directory lists their files.
C19_EqualTimestampsKeepListingOrder ==
  (Loaded /\ dir.exists) =>
    \A n, m \in 1..Len(loaded.llmTraces) :
      (n < m /\ loaded.llmTraces[n].timestamp = loaded.llmTraces[m].timestamp)
        => ListingIndex(loaded.llmTraces[n]) < ListingIndex(loaded.llmTraces[m])

\* a load where the response numbered 1 is listed before the request
\* numbered 1, and a file of a greater number before both
C19_Witness ==
  /\ Loaded
  /\ Len(loaded.llmTraces) = 3
  /\ loaded.llmTraces[1].timestamp = 1
  /\ loaded.llmTraces[2].timestamp = 1
  /\ loaded.llmTraces[1].type = "response"
  /\ loaded.llmTraces[2].type = "request"
  /\ ListingIndex(loaded.llmTraces[3]) = 1
  /\ ListingIndex(loaded.llmTraces[1]) = 2

(***************************************************************************)
(* Hashing: simpleHash, getHashableContent and JSON.stringify              *)
(*                                                                         *)
(* The strings that are hashed are made of the tokens below; a token       *)
(* stands for the characters it is written with, none of which JSON        *)
(* escapes.                                                                *)
(***************************************************************************)
Base36Digits ==
  <<"0", "1", "2", "3", "4", "5", "6", "7", "8", "9", "a", "b",
     "c", "d", "e", "f", "g", "h", "i", "j", "k", "l", "m", "n",
     "o", "p", "q", "r", "s", "t", "u", "v", "w", "x", "y", "z">>

\* the UTF-16 code units of a string of tokens: str.charCodeAt(i) for each
\* character of each token; the tokens not listed are the decimal digits
RECURSIVE CharCodes(_)
CharCodes(s) ==
  LET CodeUnits(token) ==
        CASE token = "{" -> <<123>>
          [] token = "}" -> <<125>>
          [] token = "[" -> <<91>>
          [] token = "]" -> <<93>>
          [] token = "\"" -> <<34>>
          [] token = ":" -> <<58>>
          [] token = "," -> <<44>>
          [] token = "null" -> <<110, 117, 108, 108>>
          [] token = "type" -> <<116, 121, 112, 101>>
          [] token = "text" -> <<116, 101, 120, 116>>
          [] token = "id" -> <<105, 100>>
          [] token = "name" -> <<110, 97, 109, 101>>
          [] token = "tool_use_id" -> <<116, 111, 111, 108, 95, 117, 115, 101, 95, 105, 100>>
          [] token = "thinking" -> <<116, 104, 105, 110, 107, 105, 110, 103>>
          [] token = "role" -> <<114, 111, 108, 101>>
          [] token = "content" -> <<99, 111, 110, 116, 101, 110, 116>>
          [] token = "tool_use" -> <<116, 111, 111, 108, 95, 117, 115, 101>>
          [] token = "tool_result" -> <<116, 111, 111, 108, 95, 114, 101, 115, 117, 108, 116>>
          [] token = "server_tool_use" -> <<115, 101, 114, 118, 101, 114, 95, 116, 111, 111, 108, 95, 117, 115, 101>>
          [] token = "user" -> <<117, 115, 101, 114>>
          [] token = "assistant" -> <<97, 115, 115, 105, 115, 116, 97, 110, 116>>
          [] token = "M" -> <<77>>
          [] token = "A" -> <<65>>
          [] token = "q" -> <<113>>
          [] token = "a" -> <<97>>
          [] token = "b" -> <<98>>
          [] token = "Read" -> <<82, 101, 97, 100>>
          [] token = "toolu_1" -> <<116, 111, 111, 108, 117, 95, 49>>
          [] token = "toolu_2" -> <<116, 111, 111, 108, 117, 95, 50>>
          [] token = "web_search_tool_result" -> <<119, 101, 98, 95, 115, 101, 97, 114, 99, 104, 95, 116, 111, 111, 108, 95, 114, 101, 115, 117, 108, 116>>
          [] token = "c" -> <<99>>
          [] token = "t" -> <<116>>
          [] token = "u" -> <<117>>
          [] OTHER -> <<48 + (CHOOSE n \in 0..9 : token = Base36Digits[n + 1])>> IN
  IF s = <<>> THEN <<>> ELSE CodeUnits(Head(s)) \o CharCodes(Tail(s))

\* the loop of simpleHash from the i-th code unit on; the hash after that
\* unit is bound as a value (next) before the loop goes on with it.
\* hash = ((hash << 5) - hash) + char; hash = hash & hash: the 32-bit
\* integer that is congruent to hash * 31 + char, kept as the two 16-bit
\* halves of its two's complement
RECURSIVE HashFrom(_, _, _)
HashFrom(h, codes, i) ==
  LET HashStep(g, c) ==
        LET low == g.lo * 31 + c IN
        [hi |-> (g.hi * 31 + (low \div 65536)) % 65536, lo |-> low % 65536] IN
  IF i > Len(codes) THEN h
  ELSE CHOOSE end \in {HashFrom(next, codes, i + 1) :
                         next \in {HashStep(h, codes[i])}} : TRUE

\* n.toString(36) of a non-negative integer in halves
RECURSIVE ToBase36(_)
ToBase36(h) ==
  IF h.hi = 0 /\ h.lo < 36 THEN <<Base36Digits[h.lo + 1]>>
  ELSE CHOOSE digits \in
         {ToBase36([hi |-> h.hi \div 36, lo |-> t \div 36])
            \o <<Base36Digits[(t % 36) + 1]>> :
              t \in {(h.hi % 36) * 65536 + h.lo}} : TRUE

\* simpleHash(str) for a string; a value without length hashes to "0".
\* Abs32 is Math.abs of the 32-bit integer h, in halves (2^31 for -2^31);
\* Substring0 is s.substring(0, n)
SimpleHash(str) ==
  LET Abs32(h) ==
        IF h.hi < 32768 THEN h
        ELSE IF h.lo = 0 THEN [hi |-> 65536 - h.hi, lo |-> 0]
        ELSE [hi |-> 65535 - h.hi, lo |-> 65536 - h.lo]
      Substring0(s, n) == SubSeq(s, 1, IF Len(s) < n THEN Len(s) ELSE n) IN
  IF str.t # "string" THEN Str(<<"0">>)
  ELSE CHOOSE hash \in
         {Str(Substring0(ToBase36(Abs32(HashFrom([hi |-> 0, lo |-> 0], codes, 1))), 6)) :
            codes \in {CharCodes(str.s)}} : TRUE

\* parts.join(','): the first part, then each other part after a comma
Join(parts) ==
  LET RECURSIVE JoinFrom(_)
      JoinFrom(i) ==
        IF i > Len(parts) THEN <<>> ELSE <<",">> \o parts[i] \o JoinFrom(i + 1) IN
  IF parts = <<>> THEN <<>> ELSE parts[1] \o JoinFrom(2)

\* JSON.stringify(v) for a value other than undefined: the own members of
\* an object whose value is not undefined, an undefined element of an
\* array as null, a natural number as its decimal digits
RECURSIVE JSONStringify(_)
JSONStringify(v) ==
  LET RECURSIVE Decimal(_)
      Decimal(n) ==
        IF n < 10 THEN <<Base36Digits[n + 1]>>
        ELSE Decimal(n \div 10) \o <<Base36Digits[(n % 10) + 1]>> IN
  CASE v.t = "string" -> <<"\"">> \o v.s \o <<"\"">>
    [] v.t = "number" -> Decimal(v.n)
    [] v.t = "array" ->
         <<"[">> \o Join([i \in 1..Len(v.a) |->
                           IF v.a[i] = Undef THEN <<"null">>
                           ELSE JSONStringify(v.a[i])]) \o <<"]">>
    [] v.t = "object" ->
         LET Defined(p) == p.v # Undef
             members == SelectSeq(v.kv, Defined) IN
         <<"{">> \o Join([i \in 1..Len(members) |->
                           <<"\"", members[i].k, "\"", ":">>
                             \o JSONStringify(members[i].v)]) \o <<"}">>
    [] OTHER -> <<"null">>

\* getHashableContent(contentItem): the string that is hashed for it
GetHashableContent(contentItem) ==
  IF contentItem.t = "string" THEN contentItem
  ELSE IF Truthy(contentItem) /\ TypeOf(contentItem) = "object"
            /\ Get(contentItem, "type") = Str(<<"text">>)
            /\ Truthy(Get(contentItem, "text"))
       THEN Get(contentItem, "text")
  ELSE IF Truthy(contentItem) /\ TypeOf(contentItem) = "object"
            /\ Get(contentItem, "type") = Str(<<"thinking">>)
            /\ Truthy(Get(contentItem, "thinking"))
       THEN Get(contentItem, "thinking")
  ELSE Str(JSONStringify(contentItem))

(***************************************************************************)
(* Lane of a trace: matchSystemPrompt, determineTraceLevel and the         *)
(* traceLevels of renderExampleDetail                                      *)
(*                                                                         *)
(* A text is a sequence of tokens: a blank " ", a placeholder, or a phrase  *)
(* that holds neither and occurs in a text as a whole token only, so that  *)
(* its length in characters is Len of the token.  The templates of the     *)
(* renderer's catalog hold no {{placeholder}}: the regular expression      *)
(* templateToRegex builds from such a template accepts the template's own  *)
(* text only, and extractSignatures finds one phrase at most, fewer than   *)
(* the three the signature match needs.                                    *)
(***************************************************************************)
\* systemPromptsCache[exampleId], in the order of Object.entries; a name is
\* a sequence of tokens
SystemPrompts ==
  << [name |-> <<"System-", "Interactive-Cli">>, content |-> Str(<<"M">>)],
     [name |-> <<"Explore", "-Agent">>, content |-> Str(<<"A">>)] >>

\* the catalog the viewer of the static build works with: build() embeds
\* parseExample(ex.id) for each example and nothing else, so data.systemPrompts
\* is undefined, systemPromptsCache[exampleId] is never set, and
\* systemPromptsCache[exampleId] || {} is the empty object
EmbeddedSystemPrompts == <<>>

\* text.trim().replace(/\s+/g, ' ')
NormalizeText(text) ==
  LET RECURSIVE CollapseBlanks(_)
      CollapseBlanks(s) ==
        IF Len(s) < 2 THEN s
        ELSE IF s[1] = " " /\ s[2] = " " THEN CollapseBlanks(Tail(s))
        ELSE <<s[1]>> \o CollapseBlanks(Tail(s)) IN
  Str(CollapseBlanks(Trim(text.s)))

\* the tokens that are placeholders: {{ and what follows up to }}
Placeholders == {"{{CWD}}", "{{DATE}}"}

\* templateToRegex on the tokens of a normalized template: the elements of
\* the pattern between ^ and the end, and whether the pattern ends with $.
\* A placeholder becomes .*? and makes a blank that follows it optional.
TemplateToRegex(template) ==
  LET RECURSIVE PatternFrom(_)
      PatternFrom(i) ==
        IF i > Len(template) THEN <<>>
        ELSE IF template[i] \in Placeholders
             THEN IF i < Len(template) /\ template[i + 1] = " "
                  THEN <<[re |-> ".*?"], [re |-> " ?"]>> \o PatternFrom(i + 2)
                  ELSE <<[re |-> ".*?"]>> \o PatternFrom(i + 1)
             ELSE <<[re |-> "literal", token |-> template[i]]>> \o PatternFrom(i + 1) IN
  [pattern |-> PatternFrom(1),
   lastWasPlaceholder |-> template # <<>> /\ template[Len(template)] \in Placeholders]

\* regex.test(content) with the s flag: .*? stands for any tokens
RegexTest(regex, content) ==
  LET RECURSIVE MatchesFrom(_, _)
      MatchesFrom(p, c) ==
        IF p > Len(regex.pattern)
        THEN regex.lastWasPlaceholder \/ c > Len(content)
        ELSE CASE regex.pattern[p].re = ".*?" ->
                    \E next \in c..(Len(content) + 1) : MatchesFrom(p + 1, next)
               [] regex.pattern[p].re = " ?" ->
                    \/ MatchesFrom(p + 1, c)
                    \/ c <= Len(content) /\ content[c] = " " /\ MatchesFrom(p + 1, c + 1)
               [] OTHER ->
                    /\ c <= Len(content)
                    /\ content[c] = regex.pattern[p].token
                    /\ MatchesFrom(p + 1, c + 1) IN
  MatchesFrom(1, 1)

\* extractSignatures: the phrases between the placeholders of a template,
\* trimmed, that are longer than 10 characters
ExtractSignatures(template) ==
  LET RECURSIVE Length(_)
      Length(phrase) == IF phrase = <<>> THEN 0 ELSE Len(Head(phrase)) + Length(Tail(phrase))
      Saved(phrase) == IF Length(Trim(phrase)) > 10 THEN <<Trim(phrase)>> ELSE <<>>
      RECURSIVE SignaturesFrom(_, _)
      SignaturesFrom(i, currentPhrase) ==
        IF i > Len(template) THEN Saved(currentPhrase)
        ELSE IF template[i] \in Placeholders
             THEN Saved(currentPhrase) \o SignaturesFrom(i + 1, <<>>)
             ELSE SignaturesFrom(i + 1, Append(currentPhrase, template[i])) IN
  SignaturesFrom(1, <<>>)

\* content.includes(sig) for a phrase of tokens
IncludesPhrase(content, sig) ==
  \E at \in 0..(Len(content) - Len(sig)) :
    \A k \in 1..Len(sig) : content[at + k] = sig[k]

\* the exact strategy for every template of the catalog before the
\* signature strategy for any
MatchExactBeforeSignature(systemContent, prompts) ==
  LET contentText ==
        IF systemContent.t = "string" THEN systemContent
        ELSE IF Truthy(systemContent) /\ TypeOf(systemContent) = "object"
             THEN OrElse(Get(systemContent, "text"), Str(JSONStringify(systemContent)))
             ELSE Str(JSONStringify(systemContent))
      normalizedContent == NormalizeText(contentText).s
      Exact(i) == RegexTest(TemplateToRegex(NormalizeText(prompts[i].content).s),
                            normalizedContent)
      Signature(i) ==
        LET signatures == ExtractSignatures(NormalizeText(prompts[i].content).s) IN
        /\ Len(signatures) >= 3
        /\ \A k \in 1..Len(signatures) : IncludesPhrase(normalizedContent, signatures[k])
      First(S) == IF S = {} THEN Null
                  ELSE prompts[CHOOSE i \in S : \A o \in S : i <= o].name IN
  IF \E i \in 1..Len(prompts) : Exact(i)
  THEN First({i \in 1..Len(prompts) : Exact(i)})
  ELSE First({i \in 1..Len(prompts) : Signature(i)})

\* matchSystemPrompt: the name of the first template that matches, by its
\* regex or else by its signatures, or null. MatchFrom is the loop over the
\* catalog entries from the i-th on
MatchSystemPrompt(systemContent, prompts) ==
  LET contentText ==
        IF systemContent.t = "string" THEN systemContent
        ELSE IF Truthy(systemContent) /\ TypeOf(systemContent) = "object"
             THEN OrElse(Get(systemContent, "text"), Str(JSONStringify(systemContent)))
             ELSE Str(JSONStringify(systemContent))
      RECURSIVE MatchFrom(_, _)
      MatchFrom(normalizedContent, i) ==
        IF i > Len(prompts) THEN Null
        ELSE LET normalizedTemplate == NormalizeText(prompts[i].content).s IN
             IF RegexTest(TemplateToRegex(normalizedTemplate), normalizedContent)
             THEN prompts[i].name
             ELSE LET signatures == ExtractSignatures(normalizedTemplate) IN
                  IF /\ Len(signatures) >= 3
                     /\ \A k \in 1..Len(signatures) :
                          IncludesPhrase(normalizedContent, signatures[k])
                  THEN prompts[i].name
                  ELSE MatchFrom(normalizedContent, i + 1) IN
  MatchFrom(NormalizeText(contentText).s, 1)

\* name.includes(word), for a word that is one token
Includes(name, word) == \E i \in 1..Len(name) : name[i] = word

\* trace.data.system as a list: Array.isArray(x) ? x : [x]
SystemItems(trace) ==
  LET system == Get(trace.data, "system") IN
  IF ~Truthy(system) THEN <<>>
  ELSE IF system.t = "array" THEN system.a ELSE <<system>>

\* determineTraceLevel; LevelFrom is its loop over the system items from
\* the i-th on
DetermineTraceLevel(trace, prompts) ==
  LET RECURSIVE LevelFrom(_, _)
      LevelFrom(items, i) ==
        IF i > Len(items) THEN "third"
        ELSE LET matched == MatchSystemPrompt(items[i], prompts) IN
             IF matched # Null
                  /\ (Includes(matched, "Analyze-Topic")
                        \/ Includes(matched, "Interactive-Cli"))
             THEN "main"
             ELSE IF matched # Null /\ Includes(matched, "-Agent") THEN "second"
             ELSE LevelFrom(items, i + 1) IN
  IF trace.type # "request" \/ ~Truthy(Get(trace.data, "system")) THEN "third"
  ELSE LevelFrom(SystemItems(trace), 1)

RECURSIVE PreviousRequest(_, _)
\* the last request before position i (positions from 1), 0 without one
PreviousRequest(allTraces, i) ==
  IF i <= 1 THEN 0
  ELSE IF allTraces[i - 1].type = "request" THEN i - 1
  ELSE PreviousRequest(allTraces, i - 1)

\* a response keeps the default level
TraceLevelsOfRequests(allTraces, prompts) ==
  [idx \in 1..Len(allTraces) |->
     IF allTraces[idx].type = "request"
     THEN DetermineTraceLevel(allTraces[idx], prompts)
     ELSE "third"]

\* traceLevels: a request has the level of its system prompt, a response
\* that of the request before it
TraceLevels(allTraces, prompts) ==
  [idx \in 1..Len(allTraces) |->
     IF allTraces[idx].type = "request"
     THEN DetermineTraceLevel(allTraces[idx], prompts)
     ELSE IF PreviousRequest(allTraces, idx) = 0 THEN "third"
     ELSE DetermineTraceLevel(allTraces[PreviousRequest(allTraces, idx)], prompts)]

(***************************************************************************)
(* Continuation Detector and Block Classifier: generateBlockHashSequence,  *)
(* countMatchingPrefixBlocks, renderBlocks and groupAndRenderBlocks        *)
(*                                                                         *)
(* A trace is [type, data]. Positions in allTraces and in the blocks of a  *)
(* trace count from 1 (traceIdx and blockIdx count from 0). Every message  *)
(* has a content; content items and tools are objects or strings.          *)
(***************************************************************************)
RECURSIVE Flatten(_, _)
\* the sequences seqs[i], seqs[i + 1], ... one after the other
Flatten(seqs, i) ==
  IF i > Len(seqs) THEN <<>> ELSE seqs[i] \o Flatten(seqs, i + 1)

\* trace.data.tools when it is a list that is not empty
ToolItems(trace) ==
  LET tools == Get(trace.data, "tools") IN
  IF Truthy(tools) /\ tools.t = "array" /\ Len(tools.a) > 0 THEN tools.a ELSE <<>>

\* trace.data.messages when it is there
MessageItems(trace) ==
  LET messages == Get(trace.data, "messages") IN
  IF Truthy(messages) THEN messages.a ELSE <<>>

\* Array.isArray(msg.content) && msg.content.length > 0
IsContentArray(msg) ==
  Get(msg, "content").t = "array" /\ Len(Get(msg, "content").a) > 0

\* a message without a list of content items is hashed as a whole
GenerateBlockHashSequenceOfMessages(trace) ==
  LET MessageHashes(msg) ==
        IF IsContentArray(msg)
        THEN [i \in 1..Len(Get(msg, "content").a) |->
                SimpleHash(GetHashableContent(Get(msg, "content").a[i]))]
        ELSE <<SimpleHash(Str(JSONStringify(msg)))>> IN
  IF trace.type # "request" THEN <<>>
  ELSE [i \in 1..Len(SystemItems(trace)) |->
          SimpleHash(Str(JSONStringify(SystemItems(trace)[i])))]
       \o [i \in 1..Len(ToolItems(trace)) |->
             SimpleHash(Str(JSONStringify(ToolItems(trace)[i])))]
       \o Flatten([i \in 1..Len(MessageItems(trace)) |->
                     MessageHashes(MessageItems(trace)[i])], 1)

\* generateBlockHashSequence; MessageHashes are the hashes it pushes for
\* one message
GenerateBlockHashSequence(trace) ==
  LET MessageHashes(msg) ==
        IF IsContentArray(msg)
        THEN [i \in 1..Len(Get(msg, "content").a) |->
                SimpleHash(GetHashableContent(Get(msg, "content").a[i]))]
        ELSE <<SimpleHash(GetHashableContent(Get(msg, "content")))>> IN
  IF trace.type # "request" THEN <<>>
  ELSE [i \in 1..Len(SystemItems(trace)) |->
          SimpleHash(Str(JSONStringify(SystemItems(trace)[i])))]
       \o [i \in 1..Len(ToolItems(trace)) |->
             SimpleHash(Str(JSONStringify(ToolItems(trace)[i])))]
       \o Flatten([i \in 1..Len(MessageItems(trace)) |->
                     MessageHashes(MessageItems(trace)[i])], 1)

\* a count that goes on after a mismatch: every position at which the two
\* sequences hold the same element is counted
CountEqualPairs(prevHashes, currentHashes) ==
  LET RECURSIVE EqualFrom(_)
      EqualFrom(i) ==
        IF i > Len(prevHashes) \/ i > Len(currentHashes) THEN 0
        ELSE (IF prevHashes[i] = currentHashes[i] THEN 1 ELSE 0) + EqualFrom(i + 1) IN
  EqualFrom(1)

\* the pairs are counted without being compared: minLength is returned
CountWithoutComparing(prevHashes, currentHashes) ==
  IF Len(prevHashes) < Len(currentHashes) THEN Len(prevHashes) ELSE Len(currentHashes)

\* countMatchingPrefixBlocks; MatchingFrom is its loop from position i on,
\* which stops at the first mismatch
CountMatchingPrefixBlocks(prevHashes, currentHashes) ==
  LET RECURSIVE MatchingFrom(_)
      MatchingFrom(i) ==
        IF i > Len(prevHashes) \/ i > Len(currentHashes) THEN 0
        ELSE IF prevHashes[i] = currentHashes[i] THEN 1 + MatchingFrom(i + 1)
        ELSE 0 IN
  MatchingFrom(1)

\* the content items of the responses before position traceIdx
PreviousResponseItems(allTraces, traceIdx) ==
  LET ItemsAt(i) ==
        IF allTraces[i].type = "response" /\ Truthy(Get(allTraces[i].data, "content"))
        THEN Get(allTraces[i].data, "content").a ELSE <<>> IN
  Flatten([i \in 1..(traceIdx - 1) |-> ItemsAt(i)], 1)

\* a tool_use or server_tool_use item with an id
HasToolUseId(item) ==
  /\ Get(item, "type") \in {Str(<<"tool_use">>), Str(<<"server_tool_use">>)}
  /\ Truthy(Get(item, "id"))

PreviousResponseToolUseIds(allTraces, traceIdx) ==
  LET items == PreviousResponseItems(allTraces, traceIdx) IN
  {Get(items[i], "id") : i \in {j \in 1..Len(items) : HasToolUseId(items[j])}}

PreviousResponseHashes(allTraces, traceIdx) ==
  LET items == PreviousResponseItems(allTraces, traceIdx) IN
  {SimpleHash(GetHashableContent(items[i])) :
     i \in {j \in 1..Len(items) : ~HasToolUseId(items[j])}}

SystemBlockCount(trace) ==
  IF trace.type = "request" THEN Len(SystemItems(trace)) ELSE 0

\* the request just before the trace, whatever its level
CompareWithPreviousRequest(allTraces, traceIdx, currentLevel, traceLevels) ==
  PreviousRequest(allTraces, traceIdx)

\* compareWithTrace: the position of the request the trace is compared
\* with, 0 for null. PreviousMain is the loop for (i = traceIdx - 1; i >= 0;
\* i--) that finds the previous main request, PreviousSecond the one that
\* finds the previous second request unless a main request comes first
CompareWithTrace(allTraces, traceIdx, currentLevel, traceLevels) ==
  LET RECURSIVE PreviousMain(_)
      PreviousMain(i) ==
        IF i < 1 THEN 0
        ELSE IF allTraces[i].type = "request" /\ traceLevels[i] = "main" THEN i
        ELSE PreviousMain(i - 1)
      RECURSIVE PreviousSecond(_)
      PreviousSecond(i) ==
        IF i < 1 THEN 0
        ELSE IF allTraces[i].type = "request" /\ traceLevels[i] = "main" THEN 0
        ELSE IF allTraces[i].type = "request" /\ traceLevels[i] = "second" THEN i
        ELSE PreviousSecond(i - 1) IN
  IF allTraces[traceIdx].type # "request" THEN 0
  ELSE IF currentLevel = "main" THEN PreviousMain(traceIdx - 1)
  ELSE IF currentLevel = "second" THEN PreviousSecond(traceIdx - 1)
  ELSE 0

\* the prefix counts as soon as it covers the system blocks
ContinuedFromSystemOn(matchingCount, systemBlockCount) ==
  IF matchingCount >= systemBlockCount THEN matchingCount ELSE 0

\* if (matchingCount > systemBlockCount) continuedBlockCount = matchingCount
ContinuedIfBeyondSystem(matchingCount, systemBlockCount) ==
  IF matchingCount > systemBlockCount THEN matchingCount ELSE 0

ContinuedBlockCount(allTraces, traceIdx, currentLevel, traceLevels) ==
  LET prev == CompareWithTrace(allTraces, traceIdx, currentLevel, traceLevels) IN
  IF prev = 0 THEN 0
  ELSE ContinuedIfBeyondSystem(
         CountMatchingPrefixBlocks(GenerateBlockHashSequence(allTraces[prev]),
                                   GenerateBlockHashSequence(allTraces[traceIdx])),
         SystemBlockCount(allTraces[traceIdx]))

\* a block as renderBlocks collects it, before the continued flag:
\* kind tells where it comes from (a system item, a tool, an item of a
\* content list, a message with a scalar content), type and content are
\* what blockDataStore keeps of it, hash is the hash renderBlocks computes
Block(kind, type, content, hash) ==
  [kind |-> kind, type |-> type, content |-> content, hash |-> hash]

\* the blocks of one message of a request; ContentBlockType is the
\* blockType of an item of a content list
MessageBlocks(msg) ==
  LET role == OrElse(Get(msg, "role"), Str(<<"unknown">>))
      content == Get(msg, "content")
      ContentBlockType(contentItem, r) ==
        CASE Get(contentItem, "type") = Str(<<"tool_use">>) -> Str(<<"tool_use">>)
          [] Get(contentItem, "type") = Str(<<"tool_result">>) -> Str(<<"tool_result">>)
          [] Get(contentItem, "type") = Str(<<"thinking">>) -> Str(<<"assistant">>)
          [] OTHER -> r IN
  IF IsContentArray(msg)
  THEN [i \in 1..Len(content.a) |->
          Block("content", ContentBlockType(content.a[i], role), content.a[i],
                SimpleHash(GetHashableContent(content.a[i])))]
  ELSE << Block("message", role, msg, SimpleHash(GetHashableContent(content))) >>

\* the tools are displayed before the system items
RequestBlocksToolsFirst(trace) ==
  [i \in 1..Len(ToolItems(trace)) |->
     Block("tool", Str(<<"tool">>), ToolItems(trace)[i],
           SimpleHash(Str(JSONStringify(ToolItems(trace)[i]))))]
  \o [i \in 1..Len(SystemItems(trace)) |->
        Block("system", Str(<<"system">>), SystemItems(trace)[i],
              SimpleHash(Str(JSONStringify(SystemItems(trace)[i]))))]
  \o Flatten([i \in 1..Len(MessageItems(trace)) |->
                MessageBlocks(MessageItems(trace)[i])], 1)

\* the blocks of a request: system items, tools, messages
RequestBlocks(trace) ==
  [i \in 1..Len(SystemItems(trace)) |->
     Block("system", Str(<<"system">>), SystemItems(trace)[i],
           SimpleHash(Str(JSONStringify(SystemItems(trace)[i]))))]
  \o [i \in 1..Len(ToolItems(trace)) |->
        Block("tool", Str(<<"tool">>), ToolItems(trace)[i],
              SimpleHash(Str(JSONStringify(ToolItems(trace)[i]))))]
  \o Flatten([i \in 1..Len(MessageItems(trace)) |->
                MessageBlocks(MessageItems(trace)[i])], 1)

\* every block passes for one that repeats a response
IsContinuedAlways(block, hashes, ids) == TRUE

\* isContinuedFromResponse: a tool_use item with an id is looked up by its
\* id, every other block by its hash
IsContinuedFromResponse(block, hashes, ids) ==
  IF block.kind = "content"
       /\ Get(block.content, "type") = Str(<<"tool_use">>)
       /\ Truthy(Get(block.content, "id"))
  THEN Get(block.content, "id") \in ids
  ELSE block.hash \in hashes

\* every content item as a block of its own
ResponseBlocksUnmerged(trace) ==
  LET content == Get(trace.data, "content")
      items == IF Truthy(content) /\ content.t = "array" THEN content.a ELSE <<>> IN
  [g \in 1..Len(items) |->
     [type |-> OrElse(Get(items[g], "type"), Str(<<"text">>)),
      content |-> items[g],
      isContinued |-> FALSE]]

\* the blocks of a response: one per group, none continued.
\*   GroupType        the type a response item is grouped under
\*   AddToGroups      one pass of the grouping loop: tool blocks are never
\*                    merged, any other item joins the current group when
\*                    that has its type
\*   GroupsFrom       the grouping loop from the i-th content item on; the
\*                    groups after that item are bound as a value (next)
\*                    before the loop goes on with them
\*   JoinField        items.map(item => item[field] || '').join('') from the
\*                    i-th item on
\*   RenderBlockType  renderBlockType of a group
\*   MergedContent    mergedContent of a group
ResponseBlocks(trace) ==
  LET GroupType(contentItem) == OrElse(Get(contentItem, "type"), Str(<<"text">>))
      AddToGroups(groups, contentItem) ==
        IF \/ GroupType(contentItem) \in
                {Str(<<"tool_use">>), Str(<<"server_tool_use">>),
                 Str(<<"web_search_tool_result">>)}
           \/ groups = <<>>
           \/ groups[Len(groups)].type # GroupType(contentItem)
        THEN Append(groups, [type |-> GroupType(contentItem), items |-> <<contentItem>>])
        ELSE [groups EXCEPT ![Len(groups)].items = Append(@, contentItem)]
      RECURSIVE GroupsFrom(_, _, _)
      GroupsFrom(groups, items, i) ==
        IF i > Len(items) THEN groups
        ELSE CHOOSE end \in {GroupsFrom(next, items, i + 1) :
                               next \in {AddToGroups(groups, items[i])}} : TRUE
      RECURSIVE JoinField(_, _, _)
      JoinField(items, field, i) ==
        IF i > Len(items) THEN <<>>
        ELSE ToStr(OrElse(Get(items[i], field), EmptyStr)) \o JoinField(items, field, i + 1)
      RenderBlockType(type) ==
        CASE type \in {Str(<<"text">>), Str(<<"thinking">>)} -> Str(<<"assistant">>)
          [] type \in {Str(<<"tool_use">>), Str(<<"server_tool_use">>)} -> Str(<<"tool_use">>)
          [] type = Str(<<"web_search_tool_result">>) -> Str(<<"tool_result">>)
          [] OTHER -> type
      MergedContent(group) ==
        IF group.type \in {Str(<<"text">>), Str(<<"thinking">>)} /\ Len(group.items) > 1
        THEN Obj(<< KV("type", group.type),
                    KV(group.type.s[1], Str(JoinField(group.items, group.type.s[1], 1))) >>)
        ELSE group.items[1]
      content == Get(trace.data, "content")
      allGroups == IF Truthy(content) /\ content.t = "array"
                   THEN GroupsFrom(<<>>, content.a, 1) ELSE <<>> IN
  [g \in 1..Len(allGroups) |->
     [type |-> RenderBlockType(allGroups[g].type),
      content |-> MergedContent(allGroups[g]),
      isContinued |-> FALSE]]

RECURSIVE GroupEnd(_, _)
\* while (i < blocks.length && blocks[i].isContinued) i++
GroupEnd(blocks, i) ==
  IF i <= Len(blocks) /\ blocks[i].isContinued THEN GroupEnd(blocks, i + 1) ELSE i

\* every group of continued blocks keeps the class, wherever it starts
KeepsContinuedClassAnywhere(groupStart) == TRUE

\* a group of continued blocks keeps its continued class (and is collapsed)
\* only if it starts at the first block; html.replace(/ continued/g, '')
\* takes the class from the blocks of any other group
KeepsContinuedClass(groupStart) == groupStart = 1

\* groupAndRenderBlocks; GroupAndRenderFrom is its loop from block i on:
\* the blocks as they are displayed, continued telling whether the class is
\* on the block
GroupAndRenderBlocks(blocks) ==
  LET RECURSIVE GroupAndRenderFrom(_)
      GroupAndRenderFrom(i) ==
        IF i > Len(blocks) THEN <<>>
        ELSE IF blocks[i].isContinued
             THEN [j \in 1..(GroupEnd(blocks, i) - i) |->
                     [type |-> blocks[i + j - 1].type,
                      content |-> blocks[i + j - 1].content,
                      continued |-> KeepsContinuedClass(i)]]
                  \o GroupAndRenderFrom(GroupEnd(blocks, i))
             ELSE << [type |-> blocks[i].type, content |-> blocks[i].content,
                      continued |-> FALSE] >>
                  \o GroupAndRenderFrom(i + 1) IN
  GroupAndRenderFrom(1)

\* renderBlocks for the trace at position traceIdx: the blocks displayed
RenderBlocks(allTraces, traceIdx, currentLevel, traceLevels) ==
  LET trace == allTraces[traceIdx]
      continuedBlockCount ==
        ContinuedBlockCount(allTraces, traceIdx, currentLevel, traceLevels)
      hashes == PreviousResponseHashes(allTraces, traceIdx)
      ids == PreviousResponseToolUseIds(allTraces, traceIdx)
      blocks == RequestBlocks(trace) IN
  IF trace.type = "request"
  THEN GroupAndRenderBlocks(
         [b \in 1..Len(blocks) |->
            [type |-> blocks[b].type,
             content |-> blocks[b].content,
             isContinued |-> \/ b <= continuedBlockCount
                             \/ IsContinuedFromResponse(blocks[b], hashes, ids)]])
  ELSE GroupAndRenderBlocks(ResponseBlocks(trace))

(***************************************************************************)
(* The renderer as a state machine. llmTraces is the trace list of an      *)
(* example, grown one request, one message or one response at a time;      *)
(* renderExampleDetail then computes the levels and renders every trace.   *)
(***************************************************************************)
MaxTraces == 3
MaxItems == 6

TextItem(text) == Obj(<< KV("type", Str(<<"text">>)), KV("text", text) >>)

ToolUseItem ==
  Obj(<< KV("type", Str(<<"tool_use">>)), KV("id", Str(<<"toolu_1">>)),
         KV("name", Str(<<"Read">>)) >>)

ServerToolUseItem ==
  Obj(<< KV("type", Str(<<"server_tool_use">>)), KV("id", Str(<<"toolu_1">>)),
         KV("name", Str(<<"Read">>)) >>)

Message(role, content) ==
  Obj(<< KV("role", Str(<<role>>)), KV("content", content) >>)

MainPrompt == TextItem(Str(<<"M">>))

\* the traces of an example are made of one of seven vocabularies:
\*   echo   the main prompt, alone or after an empty text block; a user
\*          question and an assistant text; responses with that text or
\*          with an empty text block
\*   tools  the main prompt with or without a tool; a user question and an
\*          assistant tool_use; responses with that tool_use or a text
\*   server no system prompt; an assistant server_tool_use; a response
\*          with that server_tool_use
\*   results no system prompt; an assistant tool_use and a user
\*          tool_result that names it; responses with that tool_use or
\*          with a text
\*   lanes  no system prompt, the main prompt as a list or as a plain
\*          string, the sub-agent prompt, the sub-agent prompt before the
\*          main prompt; a user question; a response with a text
\*   roles  the main prompt; a question as a plain string from the user
\*          and from the assistant, an assistant list of two texts and a
\*          user message with an empty list; a response with a text
\*   runs   no system prompt; a user question; responses with two or three
\*          blocks: texts, thinkings, a block without type, tool uses, tool
\*          results and search results, adjacent or apart
\* HeadChoices: data.system and data.tools of a request
HeadChoices ==
  CASE vocabulary = "echo" ->
         { [system |-> Arr(<< MainPrompt >>), tools |-> Undef],
           [system |-> Arr(<< TextItem(EmptyStr), MainPrompt >>), tools |-> Undef] }
    [] vocabulary = "roles" ->
         { [system |-> Arr(<< MainPrompt >>), tools |-> Undef] }
    [] vocabulary = "tools" ->
         { [system |-> Arr(<< MainPrompt >>), tools |-> Undef],
           [system |-> Arr(<< MainPrompt >>), tools |-> Arr(<< Obj(<< KV("name", Str(<<"Read">>)) >>) >>)] }
    [] vocabulary \in {"server", "results", "runs"} ->
         { [system |-> Undef, tools |-> Undef] }
    [] OTHER ->
         { [system |-> Undef, tools |-> Undef],
           [system |-> Arr(<< MainPrompt >>), tools |-> Undef],
           [system |-> Str(<<"M">>), tools |-> Undef],
           [system |-> Arr(<< TextItem(Str(<<"A">>)) >>), tools |-> Undef],
           [system |-> Arr(<< TextItem(Str(<<"A">>)), MainPrompt >>), tools |-> Undef] }

MessageChoices ==
  CASE vocabulary = "echo" ->
         { Message("user", Str(<<"q">>)),
           Message("assistant", Arr(<< TextItem(Str(<<"a">>)) >>)) }
    [] vocabulary = "tools" ->
         { Message("user", Str(<<"q">>)),
           Message("assistant", Arr(<< ToolUseItem >>)) }
    [] vocabulary = "server" ->
         { Message("assistant", Arr(<< ServerToolUseItem >>)) }
    [] vocabulary = "results" ->
         { Message("assistant", Arr(<< ToolUseItem >>)),
           Message("user", Arr(<< Obj(<< KV("type", Str(<<"tool_result">>)),
                                         KV("tool_use_id", Str(<<"toolu_1">>)),
                                         KV("content", Str(<<"a">>)) >>) >>)) }
    [] vocabulary = "roles" ->
         { Message("user", Str(<<"q">>)),
           Message("assistant", Str(<<"q">>)),
           Message("assistant", Arr(<< TextItem(Str(<<"a">>)), TextItem(Str(<<"b">>)) >>)),
           Message("user", Arr(<<>>)) }
    [] OTHER -> { Message("user", Str(<<"q">>)) }

\* data.content of a response
ContentChoices ==
  CASE vocabulary = "echo" ->
         { Arr(<< TextItem(Str(<<"a">>)) >>), Arr(<< TextItem(EmptyStr) >>) }
    [] vocabulary = "tools" ->
         { Arr(<< ToolUseItem >>), Arr(<< TextItem(Str(<<"a">>)) >>) }
    [] vocabulary = "server" -> { Arr(<< ServerToolUseItem >>) }
    [] vocabulary = "results" ->
         { Arr(<< ToolUseItem >>), Arr(<< TextItem(Str(<<"a">>)) >>) }
    [] vocabulary = "runs" ->
         LET Thinking(text) ==
               Obj(<< KV("type", Str(<<"thinking">>)), KV("thinking", Str(<<text>>)) >>)
             Use(type, id) ==
               Obj(<< KV("type", Str(<<type>>)), KV("id", Str(<<id>>)),
                      KV("name", Str(<<"Read">>)) >>)
             Result(type, id) ==
               Obj(<< KV("type", Str(<<type>>)), KV("tool_use_id", Str(<<id>>)) >>) IN
         { Arr(<< TextItem(Str(<<"a">>)), TextItem(Str(<<"b">>)) >>),
           Arr(<< TextItem(Str(<<"a">>)), ToolUseItem, TextItem(Str(<<"b">>)) >>),
           Arr(<< Thinking("t"), Thinking("u"), TextItem(Str(<<"a">>)) >>),
           Arr(<< TextItem(Str(<<"a">>)), Thinking("t"), TextItem(Str(<<"b">>)) >>),
           Arr(<< Obj(<< KV("text", Str(<<"c">>)) >>), TextItem(Str(<<"a">>)) >>),
           Arr(<< ToolUseItem, Use("tool_use", "toolu_2") >>),
           Arr(<< ServerToolUseItem, Use("server_tool_use", "toolu_2") >>),
           Arr(<< Result("tool_result", "toolu_1"), Result("tool_result", "toolu_2") >>),
           Arr(<< Result("web_search_tool_result", "toolu_1"),
                  Result("web_search_tool_result", "toolu_2") >>) }
    [] OTHER -> { Arr(<< TextItem(Str(<<"q">>)) >>) }

\* the data parseLLMFile keeps of a request: messages, tools, system
Request(system, tools) ==
  LET Defined(p) == p.v # Undef IN
  [type |-> "request",
   data |-> Obj(SelectSeq(<< KV("messages", Arr(<<>>)), KV("tools", tools),
                             KV("system", system) >>, Defined))]

Response(content) ==
  [type |-> "response", data |-> Obj(<< KV("content", content) >>)]

\* the number of system items, tools and content items the traces from
\* the i-th on hold
RECURSIVE ItemsFrom(_, _)
ItemsFrom(allTraces, i) ==
  LET ItemCount(trace) ==
        IF trace.type = "request"
        THEN Len(SystemItems(trace)) + Len(ToolItems(trace))
               + Len(Flatten([m \in 1..Len(MessageItems(trace)) |->
                                IF IsContentArray(MessageItems(trace)[m])
                                THEN Get(MessageItems(trace)[m], "content").a
                                ELSE <<MessageItems(trace)[m]>>], 1))
        ELSE Len(Get(trace.data, "content").a) IN
  IF i > Len(allTraces) THEN 0
  ELSE ItemCount(allTraces[i]) + ItemsFrom(allTraces, i + 1)

RenInit ==
  /\ vocabulary \in {"echo", "tools", "lanes", "roles"}
  /\ llmTraces = <<>>
  /\ rendered = [status |-> "idle"]
  /\ exampleId = <<"01_explain">>
  /\ blockDataStore = <<>>
  /\ selected = <<"01_explain">>
  /\ pending = <<>>
  /\ DecIdle
  /\ SanIdle
  /\ LoadIdle
  /\ MatIdle

\* the examples whose requests repeat tool items of the responses
EchoInit ==
  /\ vocabulary \in {"server", "results", "runs"}
  /\ llmTraces = <<>>
  /\ rendered = [status |-> "idle"]
  /\ exampleId = <<"01_explain">>
  /\ blockDataStore = <<>>
  /\ selected = <<"01_explain">>
  /\ pending = <<>>
  /\ DecIdle
  /\ SanIdle
  /\ LoadIdle
  /\ MatIdle

NewRequest ==
  /\ rendered.status = "idle"
  /\ Len(llmTraces) < MaxTraces
  /\ \E head \in HeadChoices :
       llmTraces' = Append(llmTraces, Request(head.system, head.tools))
  /\ ItemsFrom(llmTraces', 1) <= MaxItems
  /\ UNCHANGED <<vocabulary, rendered, exampleId, blockDataStore, selected, pending,
                 decVars, sanVars, loadVars, systemPrompts, prompt, matchResult>>

\* the last request of the list gets one more message
AddMessage ==
  /\ rendered.status = "idle"
  /\ llmTraces # <<>>
  /\ llmTraces[Len(llmTraces)].type = "request"
  /\ \E msg \in MessageChoices :
       llmTraces' =
         [llmTraces EXCEPT ![Len(llmTraces)].data =
            Put(@, "messages", Arr(Append(Get(@, "messages").a, msg)))]
  /\ ItemsFrom(llmTraces', 1) <= MaxItems
  /\ UNCHANGED <<vocabulary, rendered, exampleId, blockDataStore, selected, pending,
                 decVars, sanVars, loadVars, systemPrompts, prompt, matchResult>>

NewResponse ==
  /\ rendered.status = "idle"
  /\ Len(llmTraces) < MaxTraces
  /\ \E content \in ContentChoices :
       llmTraces' = Append(llmTraces, Response(content))
  /\ ItemsFrom(llmTraces', 1) <= MaxItems
  /\ UNCHANGED <<vocabulary, rendered, exampleId, blockDataStore, selected, pending,
                 decVars, sanVars, loadVars, systemPrompts, prompt, matchResult>>

\* the store is emptied before the blocks are stored
StoreAfterEmptied(store, id, blocks) ==
  LET places == UNION { {<<traceIdx, blockIdx>> : blockIdx \in 1..Len(blocks[traceIdx])} :
                          traceIdx \in 1..Len(blocks) }
      BlockKey(pl) ==
        id \o <<"-", "trace", Base36Digits[pl[1]], "-", "block", Base36Digits[pl[2]]>> IN
  [key \in {BlockKey(pl) : pl \in places} |->
     LET pl == CHOOSE pl \in places : BlockKey(pl) = key IN
     [type |-> blocks[pl[1]][pl[2]].type, content |-> blocks[pl[1]][pl[2]].content]]

\* what renderExampleDetail leaves in blockDataStore: the entries whose key
\* starts with exampleId + '-' are deleted, then renderBlocks stores every
\* block of every trace under exampleId + '-trace' + traceIdx + '-block' +
\* blockIdx. A key is a sequence of tokens, as the example id is.
StoreAfter(store, id, blocks) ==
  LET StartsWith(key, prefix) ==
        Len(key) >= Len(prefix) /\ SubSeq(key, 1, Len(prefix)) = prefix
      BlockKey(traceIdx, blockIdx) ==
        id \o <<"-", "trace", Base36Digits[traceIdx], "-", "block", Base36Digits[blockIdx]>>
      kept == { key \in DOMAIN store : ~StartsWith(key, id \o <<"-">>) }
      places == UNION { {<<traceIdx, blockIdx>> : blockIdx \in 1..Len(blocks[traceIdx])} :
                          traceIdx \in 1..Len(blocks) }
      Stored(key) ==
        LET pl == CHOOSE pl \in places : BlockKey(pl[1], pl[2]) = key IN
        [type |-> blocks[pl[1]][pl[2]].type, content |-> blocks[pl[1]][pl[2]].content] IN
  [key \in kept \cup {BlockKey(pl[1], pl[2]) : pl \in places} |->
     IF \E pl \in places : BlockKey(pl[1], pl[2]) = key THEN Stored(key) ELSE store[key]]

\* renderExampleDetail: the levels of the traces, then the blocks of every
\* trace, which are stored in blockDataStore
RenderExampleDetail ==
  /\ rendered.status = "idle"
  /\ \E traceLevels \in {TraceLevels(llmTraces, SystemPrompts)} :
       rendered' =
         [status |-> "rendered",
          traceLevels |-> traceLevels,
          blocks |-> [idx \in 1..Len(llmTraces) |->
                        RenderBlocks(llmTraces, idx, traceLevels[idx], traceLevels)]]
  /\ blockDataStore' = StoreAfter(blockDataStore, exampleId, rendered'.blocks)
  /\ UNCHANGED <<vocabulary, llmTraces, exampleId, selected, pending, decVars, sanVars,
                 loadVars, systemPrompts, prompt, matchResult>>

RenNext ==
  \/ NewRequest
  \/ AddMessage
  \/ NewResponse
  \/ RenderExampleDetail

SpecRender == RenInit /\ [][RenNext]_vars

SpecEcho == EchoInit /\ [][RenNext]_vars

\* the examples of the echo, tools and roles vocabularies alone
BlocksInit ==
  /\ vocabulary \in {"echo", "tools", "roles"}
  /\ llmTraces = <<>>
  /\ rendered = [status |-> "idle"]
  /\ exampleId = <<"01_explain">>
  /\ blockDataStore = <<>>
  /\ selected = <<"01_explain">>
  /\ pending = <<>>
  /\ DecIdle
  /\ SanIdle
  /\ LoadIdle
  /\ MatIdle

SpecBlocks == BlocksInit /\ [][RenNext]_vars

(***************************************************************************)
(* Selecting one example after the other                                   *)
(***************************************************************************)
MaxPending == 2

\* handleExampleChange up to its await: the value chosen in the select is
\* read; for the empty choice the container is emptied, for an example the
\* container shows Loading... and the fetch of the example is sent. One
\* example id starts with another id and a hyphen.
HandleExampleChange ==
  /\ \E id \in { <<>>, <<"01_explain">>, <<"01_explain", "-", "this-repo">> } :
       /\ selected' = id
       /\ IF id = <<>>
          THEN /\ rendered' = [status |-> "empty"]
               /\ pending' = pending
          ELSE /\ Len(pending) < MaxPending
               /\ rendered' = [status |-> "loading"]
               /\ pending' = Append(pending, id)
  /\ UNCHANGED <<vocabulary, llmTraces, exampleId, blockDataStore, decVars, sanVars,
                 loadVars, systemPrompts, prompt, matchResult>>

\* handleExampleChange after its await: one of the fetches answers, in any
\* order, and renderExampleDetail renders its data under the id the fetch
\* was sent for, or the fetch fails and the container reports that. The
\* examples are no traces at all, one request, or a request and a response
\* of the vocabulary.
ExampleFetched ==
  /\ \E n \in 1..Len(pending) :
       /\ pending' = SubSeq(pending, 1, n - 1) \o SubSeq(pending, n + 1, Len(pending))
       /\ \/ /\ exampleId' = pending[n]
             /\ \E data \in {<<>>}
                   \cup { <<Request(head.system, head.tools)>> : head \in HeadChoices }
                   \cup { <<Request(head.system, head.tools), Response(content)>> :
                            head \in HeadChoices, content \in ContentChoices } :
                  llmTraces' = data
             /\ \E traceLevels \in {TraceLevels(llmTraces', SystemPrompts)} :
                  rendered' =
                    [status |-> "rendered",
                     traceLevels |-> traceLevels,
                     blocks |-> [idx \in 1..Len(llmTraces') |->
                                   RenderBlocks(llmTraces', idx, traceLevels[idx],
                                                traceLevels)]]
             /\ blockDataStore' = StoreAfter(blockDataStore, exampleId', rendered'.blocks)
          \/ /\ rendered' = [status |-> "failed"]
             /\ UNCHANGED <<exampleId, llmTraces, blockDataStore>>
  /\ UNCHANGED <<vocabulary, selected, decVars, sanVars, loadVars, systemPrompts, prompt,
                 matchResult>>

SpecStore == RenInit /\ [][HandleExampleChange \/ ExampleFetched]_vars

(***************************************************************************)
(* The matcher alone: matchSystemPrompt over catalogs of templates with    *)
(* placeholders                                                            *)
(***************************************************************************)
MaxTemplates == 2

\* the catalog holds the system prompt files of an example, name and template
\* text, each name once as in Object.entries of an object
MatInit ==
  LET TemplatePool ==
        { [name |-> <<"System-", "Literal">>,
           content |-> Str(<<"Follow the rules", " ", "Working directory:", " ",
                             "You are Claude Code">>)],
          [name |-> <<"System-", "Sections">>,
           content |-> Str(<<"You are Claude Code", "{{CWD}}", "Working directory:",
                             "{{DATE}}", "Follow the rules">>)],
          [name |-> <<"System-", "Brief">>,
           content |-> Str(<<"You are Claude Code", "{{CWD}}", "Be brief", "{{DATE}}",
                             "Follow the rules">>)],
          [name |-> <<"System-", "Open">>,
           content |-> Str(<<"You are Claude Code", " ", "{{CWD}}">>)],
          [name |-> <<"System-", "Blank">>,
           content |-> Str(<<" ", "You are Claude Code", "{{CWD}}", " ",
                             "Working directory:">>)] }
      Catalogs ==
        { c \in UNION {[1..n -> TemplatePool] : n \in 0..MaxTemplates} :
            \A i, o \in 1..Len(c) : c[i].name = c[o].name => i = o } IN
  /\ systemPrompts \in Catalogs
  /\ prompt = Null
  /\ matchResult = [status |-> "idle"]
  /\ DecIdle
  /\ SanIdle
  /\ LoadIdle
  /\ RenIdle

\* one call of matchSystemPrompt, with a string or a text item
Match ==
  LET SystemContents ==
        { Str(<<"Follow the rules", " ", "Working directory:", " ",
                "You are Claude Code">>),
          Str(<<"You are Claude Code", "/repo", "Working directory:", "Monday",
                "Follow the rules">>),
          TextItem(Str(<<"You are Claude Code", " ", "/repo", " ", "Monday">>)),
          Str(<<" ", "You are Claude Code", " ", " ", "Working directory:", " ">>),
          Str(<<"Follow the rules", "Be brief", "You are Claude Code">>),
          Str(<<"Be brief">>) } IN
  /\ \E systemContent \in SystemContents :
       /\ prompt' = systemContent
       /\ matchResult' = [status |-> "matched",
                          name |-> MatchSystemPrompt(systemContent, systemPrompts)]
  /\ UNCHANGED <<systemPrompts, decVars, sanVars, loadVars, renVars>>

SpecMatch == MatInit /\ [][Match]_vars

(***************************************************************************)
(* Properties of the continuation detector                                 *)
(***************************************************************************)
Rendered == rendered.status = "rendered"

\* the position of the request that request i is compared with (its
\* predecessor: the previous request of its lane), 0 when there is none
Predecessor(i) ==
  IF llmTraces[i].type = "request"
  THEN CompareWithTrace(llmTraces, i, rendered.traceLevels[i], rendered.traceLevels)
  ELSE 0

\* the requests that have a predecessor
ComparedRequests == {i \in 1..Len(llmTraces) : Predecessor(i) # 0}

\* the number k of leading equal elements of two hash sequences: they
\* agree on their first k elements and differ at the next, or one ends
LeadingEqual(prevHashes, currentHashes) ==
  CHOOSE k \in 0..Len(currentHashes) :
    /\ k <= Len(prevHashes)
    /\ \A j \in 1..k : prevHashes[j] = currentHashes[j]
    /\ \/ k = Len(prevHashes)
       \/ k = Len(currentHashes)
       \/ prevHashes[k + 1] # currentHashes[k + 1]

SharedWithPredecessor(i) ==
  LeadingEqual(GenerateBlockHashSequence(llmTraces[Predecessor(i)]),
               GenerateBlockHashSequence(llmTraces[i]))

\* block b of trace i is displayed with the continued class (b from 1:
\* the block of index b - 1)
Marked(i, b) == rendered.blocks[i][b].continued

\* block b of request i matches a content item of a response before it:
\* a tool_use block with an id by that id, any other block by its hash
EchoesResponse(i, b) ==
  LET block == RequestBlocks(llmTraces[i])[b]
      byId == /\ block.kind = "content"
              /\ Get(block.content, "type") = Str(<<"tool_use">>)
              /\ Truthy(Get(block.content, "id")) IN
  \E r \in 1..(i - 1) :
    /\ llmTraces[r].type = "response"
    /\ \E n \in 1..Len(Get(llmTraces[r].data, "content").a) :
         LET item == Get(llmTraces[r].data, "content").a[n] IN
         IF byId
         THEN HasToolUseId(item) /\ Get(item, "id") = Get(block.content, "id")
         ELSE ~HasToolUseId(item) /\ SimpleHash(GetHashableContent(item)) = block.hash

PrecedingResponse(i) ==
  LET before == {r \in 1..(i - 1) : llmTraces[r].type = "response"} IN
  IF before = {} THEN 0 ELSE CHOOSE r \in before : \A o \in before : o <= r

\* block b of request i has the hash of a content item of the response at
\* position r, or is a tool-use block with the id of a tool-use item of it
EchoesResponseAt(i, b, r) ==
  LET block == RequestBlocks(llmTraces[i])[b]
      IsToolUse(item) ==
        Get(item, "type") \in {Str(<<"tool_use">>), Str(<<"server_tool_use">>)} IN
  /\ llmTraces[i].type = "request"
  /\ r \in 1..Len(llmTraces)
  /\ llmTraces[r].type = "response"
  /\ \E n \in 1..Len(Get(llmTraces[r].data, "content").a) :
       LET item == Get(llmTraces[r].data, "content").a[n] IN
       \/ SimpleHash(GetHashableContent(item)) = block.hash
       \/ /\ block.kind = "content"
          /\ IsToolUse(block.content) /\ IsToolUse(item)
          /\ Truthy(Get(item, "id"))
          /\ Get(item, "id") = Get(block.content, "id")

EchoesPrecedingResponse(i, b) == EchoesResponseAt(i, b, PrecedingResponse(i))

\* C20: whatever the prefix count, a block of a request that has the hash
\* of a content item of the preceding response, or is a tool-use block with
\* the id of a tool-use item of it, is marked continued in what
\* renderBlocks returns.
C20_EchoOfPrecedingResponseContinued ==
  Rendered =>
    \A i \in 1..Len(llmTraces) :
      \A b \in 1..Len(rendered.blocks[i]) :
        EchoesPrecedingResponse(i, b) => Marked(i, b)

\* block b of request i is a tool_result whose tool_use_id is the id of a
\* tool_use item of the response before it
ResultOfPrecedingToolUse(i, b) ==
  LET block == RequestBlocks(llmTraces[i])[b] IN
  /\ llmTraces[i].type = "request"
  /\ PrecedingResponse(i) # 0
  /\ block.kind = "content"
  /\ Get(block.content, "type") = Str(<<"tool_result">>)
  /\ \E n \in 1..Len(Get(llmTraces[PrecedingResponse(i)].data, "content").a) :
       LET item == Get(llmTraces[PrecedingResponse(i)].data, "content").a[n] IN
       /\ Get(item, "type") = Str(<<"tool_use">>)
       /\ Truthy(Get(item, "id"))
       /\ Get(item, "id") = Get(block.content, "tool_use_id")

\* C21: a tool_result block of a request whose tool_use_id is the id of a
\* tool_use block of the previous response is marked continued.
C21_ToolResultOfPrecedingToolUseContinued ==
  Rendered =>
    \A i \in 1..Len(llmTraces) :
      \A b \in 1..Len(rendered.blocks[i]) :
        ResultOfPrecedingToolUse(i, b) => Marked(i, b)

\* the number of leading blocks of request i that the comparison with its
\* predecessor marks: the shared hashes when they go beyond the system
\* items, else none
MatchedPrefix(i) ==
  IF llmTraces[i].type = "request" /\ Predecessor(i) # 0
       /\ SharedWithPredecessor(i) > SystemBlockCount(llmTraces[i])
  THEN SharedWithPredecessor(i)
  ELSE 0

\* C22 as stated: a block of a request outside the matched prefix is marked
\* continued only if its hash or id is that of a content block of the
\* response immediately before the request: older responses mark nothing.
C22_OnlyPrecedingResponseMarks ==
  Rendered =>
    \A i \in 1..Len(llmTraces) :
      \A b \in (MatchedPrefix(i) + 1)..Len(rendered.blocks[i]) :
        Marked(i, b) => EchoesPrecedingResponse(i, b)

\* C22 amended: a block of a request outside the matched prefix is marked
\* continued only if its hash or id is that of a content block of a
\* response that comes before the request in the trace list.
C22_OnlyEarlierResponsesMark ==
  Rendered =>
    \A i \in 1..Len(llmTraces) :
      \A b \in (MatchedPrefix(i) + 1)..Len(rendered.blocks[i]) :
        (llmTraces[i].type = "request" /\ Marked(i, b)) =>
          \E r \in 1..(i - 1) : EchoesResponseAt(i, b, r)

\* a rendered request whose first block is marked for the tool_use of a
\* response that is not the one just before it
C22_Witness ==
  /\ Rendered
  /\ \E i \in 1..Len(llmTraces) :
       /\ llmTraces[i].type = "request"
       /\ MatchedPrefix(i) = 0
       /\ Len(rendered.blocks[i]) >= 1
       /\ Marked(i, 1)
       /\ ~EchoesPrecedingResponse(i, 1)
       /\ \E r \in 1..(PrecedingResponse(i) - 1) : EchoesResponseAt(i, 1, r)

\* the requests of the rendered example
Requests == {i \in 1..Len(llmTraces) : llmTraces[i].type = "request"}

\* the most recent request before request i that has its lane, 0 when
\* there is none
MostRecentSameLane(i) ==
  LET same == {j \in Requests : j < i /\ rendered.traceLevels[j] = rendered.traceLevels[i]} IN
  IF same = {} THEN 0 ELSE CHOOSE j \in same : \A o \in same : o <= j

\* C23 as stated: in each of the three lanes, the predecessor of a request
\* is the most recent earlier request of its lane, whatever lies between.
C23_PredecessorIsSameLanePrevious ==
  Rendered => \A i \in Requests : Predecessor(i) = MostRecentSameLane(i)

\* C23 amended: the predecessor of a main request is the most recent earlier
\* main request, whatever lies between; that of a second-rank request is the
\* most recent earlier second-rank request unless a main request lies
\* between them, and then it has none; a request of the third lane has no
\* predecessor.
C23_PredecessorByLane ==
  Rendered =>
    \A i \in Requests :
      CASE rendered.traceLevels[i] = "main" -> Predecessor(i) = MostRecentSameLane(i)
        [] rendered.traceLevels[i] = "second" ->
             Predecessor(i) =
               IF \E j \in Requests :
                    /\ MostRecentSameLane(i) < j /\ j < i
                    /\ rendered.traceLevels[j] = "main"
               THEN 0 ELSE MostRecentSameLane(i)
        [] OTHER -> Predecessor(i) = 0

\* a rendered example with a second-rank request between two main requests:
\* the last one is compared with the first
C23_Witness ==
  /\ Rendered
  /\ Len(llmTraces) = 3
  /\ Requests = {1, 2, 3}
  /\ rendered.traceLevels = <<"main", "second", "main">>
  /\ Predecessor(3) = 1
  /\ Predecessor(2) = 0

\* the request nearest before trace i in the list, 0 when there is none
NearestRequestBefore(i) ==
  IF \A j \in Requests : j >= i THEN 0
  ELSE CHOOSE j \in Requests : j < i /\ \A o \in Requests : o < i => o <= j

\* C24: a response has the lane of the nearest request before it, the
\* third lane when no request comes before it; every trace has exactly one
\* of the three lanes.
C24_ResponseInheritsLane ==
  Rendered =>
    /\ Len(rendered.traceLevels) = Len(llmTraces)
    /\ \A i \in 1..Len(llmTraces) :
         /\ rendered.traceLevels[i] \in {"main", "second", "third"}
         /\ llmTraces[i].type = "response" =>
              rendered.traceLevels[i] =
                IF NearestRequestBefore(i) = 0 THEN "third"
                ELSE rendered.traceLevels[NearestRequestBefore(i)]

\* a rendered example that starts with a response, in the third lane, and
\* goes on with a main request and its response, in the main lane
C24_Witness ==
  /\ Rendered
  /\ Len(llmTraces) = 3
  /\ Requests = {2}
  /\ rendered.traceLevels = <<"third", "main", "main">>

\* some system item of request i matches a template of the catalog whose
\* name holds one of the words
MatchesTemplateNamed(i, words) ==
  \E n \in 1..Len(SystemItems(llmTraces[i])) :
    \E t \in 1..Len(SystemPrompts) :
      /\ MatchSystemPrompt(SystemItems(llmTraces[i])[n], <<SystemPrompts[t]>>) # Null
      /\ \E word \in words : Includes(SystemPrompts[t].name, word)

\* C25: a request is main when its system prompt matches a template named
\* Analyze-Topic or Interactive-Cli, second-rank when it matches a template
\* named -Agent, and in the third lane in every other case.
C25_LevelByTemplateName ==
  Rendered =>
    \A i \in Requests :
      rendered.traceLevels[i] =
        IF MatchesTemplateNamed(i, {"Analyze-Topic", "Interactive-Cli"}) THEN "main"
        ELSE IF MatchesTemplateNamed(i, {"-Agent"}) THEN "second"
        ELSE "third"

(***************************************************************************)
(* Properties of the matcher                                               *)
(***************************************************************************)
\* the normalized tokens of the content the matcher was called with
PromptText ==
  NormalizeText(IF prompt.t = "string" THEN prompt ELSE Get(prompt, "text")).s

\* the i-th template of the catalog matches the content exactly
MatchesExactly(i) ==
  RegexTest(TemplateToRegex(NormalizeText(systemPrompts[i].content).s), PromptText)

\* the non-placeholder fragments of the i-th template that are longer than 10
\* characters: the trimmed maximal runs of tokens that are no placeholders
LongFragments(i) ==
  LET template == NormalizeText(systemPrompts[i].content).s
      RECURSIVE Characters(_)
      Characters(phrase) ==
        IF phrase = <<>> THEN 0 ELSE Len(Head(phrase)) + Characters(Tail(phrase))
      Runs == { r \in (1..Len(template)) \X (1..Len(template)) :
                  /\ r[1] <= r[2]
                  /\ \A k \in r[1]..r[2] : template[k] \notin Placeholders
                  /\ r[1] = 1 \/ template[r[1] - 1] \in Placeholders
                  /\ r[2] = Len(template) \/ template[r[2] + 1] \in Placeholders } IN
  { r \in Runs : Characters(Trim(SubSeq(template, r[1], r[2]))) > 10 }

\* the i-th template matches the content by signature
MatchesBySignature(i) ==
  LET template == NormalizeText(systemPrompts[i].content).s IN
  /\ Cardinality(LongFragments(i)) >= 3
  /\ \A r \in LongFragments(i) :
       IncludesPhrase(PromptText, Trim(SubSeq(template, r[1], r[2])))

\* the template the matcher returned, as an index of the catalog
Returned(i) == matchResult.name # Null /\ matchResult.name = systemPrompts[i].name

\* C26 as stated: when some template of the catalog matches the content
\* exactly the matcher returns an exactly matching template, and a template
\* returned without an exact match has at least three fragments longer than
\* 10 characters that all occur in the content.
C26_ExactBeforeSignature ==
  matchResult.status = "matched" =>
    /\ (\E i \in 1..Len(systemPrompts) : MatchesExactly(i)) =>
         \E i \in 1..Len(systemPrompts) : MatchesExactly(i) /\ Returned(i)
    /\ \A i \in 1..Len(systemPrompts) :
         Returned(i) /\ ~MatchesExactly(i) => MatchesBySignature(i)

\* C26 amended: the matcher returns the first template of the catalog that
\* matches exactly or by signature, null when there is none, and a template
\* returned without an exact match has at least three fragments longer than
\* 10 characters that all occur in the content.
C26_FirstMatchingTemplate ==
  matchResult.status = "matched" =>
    LET matching == { i \in 1..Len(systemPrompts) :
                        MatchesExactly(i) \/ MatchesBySignature(i) } IN
    /\ matching = {} => matchResult.name = Null
    /\ matching # {} => Returned(CHOOSE i \in matching : \A o \in matching : i <= o)
    /\ \A i \in 1..Len(systemPrompts) :
         Returned(i) /\ ~MatchesExactly(i) => MatchesBySignature(i)

\* a template matched by signature only is returned though a later template
\* of the catalog matches the content exactly
C26_Witness ==
  /\ matchResult.status = "matched"
  /\ \E i, o \in 1..Len(systemPrompts) :
       /\ i < o
       /\ Returned(i)
       /\ ~MatchesExactly(i)
       /\ MatchesBySignature(i)
       /\ MatchesExactly(o)

(***************************************************************************)
(* Properties of the response blocks                                       *)
(***************************************************************************)
\* data.content of the response at position i
ResponseContent(i) == Get(llmTraces[i].data, "content").a

\* a text block is a content block of type text or of no type, a thinking
\* block one of type thinking
RunKind(item) ==
  IF Get(item, "type") \in {Undef, Str(<<"text">>)} THEN "text"
  ELSE IF Get(item, "type") = Str(<<"thinking">>) THEN "thinking"
  ELSE "other"

\* the positions at which a maximal run of adjacent text blocks or of
\* adjacent thinking blocks starts
RunStarts(i) ==
  { p \in 1..Len(ResponseContent(i)) :
      /\ RunKind(ResponseContent(i)[p]) # "other"
      /\ p = 1 \/ RunKind(ResponseContent(i)[p - 1]) # RunKind(ResponseContent(i)[p]) }

\* the last position of the run that starts at p
RunEnd(i, p) ==
  CHOOSE q \in p..Len(ResponseContent(i)) :
    /\ \A k \in p..q : RunKind(ResponseContent(i)[k]) = RunKind(ResponseContent(i)[p])
    /\ q = Len(ResponseContent(i))
         \/ RunKind(ResponseContent(i)[q + 1]) # RunKind(ResponseContent(i)[p])

\* the texts of the blocks from p to q, one after the other
RECURSIVE RunText(_, _, _)
RunText(i, p, q) ==
  IF p > q THEN <<>>
  ELSE Get(ResponseContent(i)[p], RunKind(ResponseContent(i)[p])).s \o RunText(i, p + 1, q)

\* C27: the display blocks of a response are its content blocks in their
\* order, with every maximal run of adjacent text blocks, and every maximal
\* run of adjacent thinking blocks, as exactly one display block that holds
\* the texts of the run one after the other: each display block stands at
\* the place of a block that is no text and no thinking, or at the start of
\* a run, and each run has its display block.
C27_RunsMergedInOrder ==
  Rendered =>
    \A i \in 1..Len(llmTraces) :
      llmTraces[i].type = "response" =>
        LET display == rendered.blocks[i] IN
        \E place \in [1..Len(display) -> 1..Len(ResponseContent(i))] :
          /\ \A d, e \in 1..Len(display) : d < e => place[d] < place[e]
          /\ RunStarts(i) \subseteq {place[d] : d \in 1..Len(display)}
          /\ \A d \in 1..Len(display) :
               IF RunKind(ResponseContent(i)[place[d]]) = "other"
               THEN display[d].content = ResponseContent(i)[place[d]]
               ELSE /\ place[d] \in RunStarts(i)
                    /\ Get(display[d].content, RunKind(ResponseContent(i)[place[d]])).s
                         = RunText(i, place[d], RunEnd(i, place[d]))

\* a response with a run of two text blocks and a response with two text
\* blocks that a tool use separates have been rendered
C27_Witness ==
  /\ Rendered
  /\ \E i \in 1..Len(llmTraces) :
       /\ llmTraces[i].type = "response"
       /\ \E p \in RunStarts(i) : RunEnd(i, p) > p
       /\ Len(rendered.blocks[i]) < Len(ResponseContent(i))
  /\ \E i \in 1..Len(llmTraces) :
       /\ llmTraces[i].type = "response"
       /\ \E p, q \in RunStarts(i) :
            p < q /\ RunKind(ResponseContent(i)[p]) = RunKind(ResponseContent(i)[q])
       /\ Len(rendered.blocks[i]) = Len(ResponseContent(i))

\* the positions of the tool-use, tool-result and search-result blocks
ToolPositions(i) ==
  { p \in 1..Len(ResponseContent(i)) :
      Get(ResponseContent(i)[p], "type") \in
        {Str(<<"tool_use">>), Str(<<"server_tool_use">>), Str(<<"tool_result">>),
         Str(<<"web_search_tool_result">>)} }

\* C28: every tool-use, tool-result and search-result block of a response
\* has a display block of its own that carries it, in the order of the
\* content.
C28_ToolBlocksNeverMerged ==
  Rendered =>
    \A i \in 1..Len(llmTraces) :
      llmTraces[i].type = "response" =>
        LET display == rendered.blocks[i] IN
        \E shown \in [ToolPositions(i) -> 1..Len(display)] :
          /\ \A p, q \in ToolPositions(i) : p < q => shown[p] < shown[q]
          /\ \A p \in ToolPositions(i) : display[shown[p]].content = ResponseContent(i)[p]

(***************************************************************************)
(* Properties of the flattened block sequence                              *)
(***************************************************************************)
\* the content of message m of the request at position i
ContentOf(i, m) == Get(MessageItems(llmTraces[i])[m], "content")

\* the number of elements message m contributes, a message with an empty
\* list contributing ofEmptyList elements
ElementCount(i, m, ofEmptyList) ==
  IF ContentOf(i, m).t # "array" THEN 1
  ELSE IF ContentOf(i, m).a = <<>> THEN ofEmptyList
  ELSE Len(ContentOf(i, m).a)

\* the number of elements before those of message m: the system entries,
\* the tool definitions and the elements of the messages before it
RECURSIVE ElementsBefore(_, _, _)
ElementsBefore(i, m, ofEmptyList) ==
  IF m = 1 THEN Len(SystemItems(llmTraces[i])) + Len(ToolItems(llmTraces[i]))
  ELSE ElementsBefore(i, m - 1, ofEmptyList) + ElementCount(i, m - 1, ofEmptyList)

\* the elements message m contributes to the sequence hashes of request i
ElementsOf(hashes, i, m, ofEmptyList) ==
  SubSeq(hashes, ElementsBefore(i, m, ofEmptyList) + 1,
         ElementsBefore(i, m, ofEmptyList) + ElementCount(i, m, ofEmptyList))

\* the sequence of request i holds the elements of its messages and no more
ElementsFill(hashes, i, ofEmptyList) ==
  Len(hashes) = ElementsBefore(i, Len(MessageItems(llmTraces[i])) + 1, ofEmptyList)

\* every element of a list content is the hash of the list element at its
\* place
ListElementsInOrder(hashes, i, ofEmptyList) ==
  \A m \in 1..Len(MessageItems(llmTraces[i])) :
    ContentOf(i, m).t = "array" =>
      \A k \in 1..Len(ContentOf(i, m).a) :
        ElementsOf(hashes, i, m, ofEmptyList)[k]
          = SimpleHash(GetHashableContent(ContentOf(i, m).a[k]))

\* C29 as stated: in the block sequence of a rendered request a message with
\* a scalar content contributes one element and two such messages that differ
\* contribute different elements unless their hashes as whole messages
\* collide; a message with a list contributes one element for each list
\* element, in the order of the list.
C29_ScalarMessageHashedWhole ==
  Rendered => \A i \in Requests : \A hashes \in {GenerateBlockHashSequence(llmTraces[i])} :
    /\ ElementsFill(hashes, i, 0)
    /\ \A m, n \in 1..Len(MessageItems(llmTraces[i])) :
         /\ ContentOf(i, m).t # "array"
         /\ ContentOf(i, n).t # "array"
         /\ SimpleHash(Str(JSONStringify(MessageItems(llmTraces[i])[m])))
              # SimpleHash(Str(JSONStringify(MessageItems(llmTraces[i])[n])))
         => ElementsOf(hashes, i, m, 0) # ElementsOf(hashes, i, n, 0)
    /\ ListElementsInOrder(hashes, i, 0)

\* C29 amended: in the block sequence of a rendered request a message with a
\* scalar content contributes one element, the hash of that content alone,
\* so the same content under different roles contributes equal elements; a
\* message with a list that is not empty contributes one element for each
\* list element, in the order of the list, and a message with an empty list
\* one element, the hash of the list.
C29_ScalarMessageHashedByContent ==
  Rendered => \A i \in Requests : \A hashes \in {GenerateBlockHashSequence(llmTraces[i])} :
    /\ ElementsFill(hashes, i, 1)
    /\ \A m \in 1..Len(MessageItems(llmTraces[i])) :
         /\ ContentOf(i, m).t = "string" =>
              ElementsOf(hashes, i, m, 1) = <<SimpleHash(ContentOf(i, m))>>
         /\ ContentOf(i, m) = Arr(<<>>) =>
              ElementsOf(hashes, i, m, 1) = <<SimpleHash(Str(JSONStringify(ContentOf(i, m))))>>
    /\ \A m, n \in 1..Len(MessageItems(llmTraces[i])) :
         /\ ContentOf(i, m).t # "array"
         /\ ContentOf(i, m) = ContentOf(i, n)
         => ElementsOf(hashes, i, m, 1) = ElementsOf(hashes, i, n, 1)
    /\ ListElementsInOrder(hashes, i, 1)

\* a request that is compared with its predecessor holds the same plain
\* string from the user and from the assistant, with equal elements, and a
\* request holds a list of two content items
C29_Witness ==
  /\ Rendered
  /\ \E i \in Requests : \E m, n \in 1..Len(MessageItems(llmTraces[i])) :
       /\ Predecessor(i) # 0
       /\ ContentOf(i, m).t = "string"
       /\ ContentOf(i, m) = ContentOf(i, n)
       /\ Get(MessageItems(llmTraces[i])[m], "role") # Get(MessageItems(llmTraces[i])[n], "role")
       /\ ElementsOf(GenerateBlockHashSequence(llmTraces[i]), i, m, 1)
            = ElementsOf(GenerateBlockHashSequence(llmTraces[i]), i, n, 1)
  /\ \E i \in Requests : \E m \in 1..Len(MessageItems(llmTraces[i])) :
       /\ ContentOf(i, m).t = "array"
       /\ Len(ContentOf(i, m).a) >= 2

(***************************************************************************)
(* Properties of the block store                                           *)
(***************************************************************************)
\* the example a key of the store was created for: the key without its
\* six tokens -trace<n>-block<n>
CreatedFor(key) == SubSeq(key, 1, Len(key) - 6)

\* the key starts with the id of the example and a hyphen
StartsWithId(key, id) ==
  Len(key) > Len(id) /\ SubSeq(key, 1, Len(id) + 1) = id \o <<"-">>

\* C30 as stated: the block store holds no data created for an example
\* other than the one selected and rendered last.
C30_OtherExamplesDiscarded ==
  \A key \in DOMAIN blockDataStore : CreatedFor(key) = exampleId

\* C30 amended: rendering an example discards the entries of the store whose
\* key starts with the id of that example and a hyphen, and no other: an
\* entry created for another example stays as it is, and of the entries
\* whose key starts so only those of the blocks just rendered are there.
\* A step that renders nothing leaves the store as it is.
C30_OnlyOwnPrefixDiscarded ==
  [][ /\ rendered'.status # "rendered" => blockDataStore' = blockDataStore
      /\ \A key \in DOMAIN blockDataStore :
           ~StartsWithId(key, exampleId') =>
             /\ key \in DOMAIN blockDataStore'
             /\ blockDataStore'[key] = blockDataStore[key]
      /\ \A key \in DOMAIN blockDataStore' :
           (rendered'.status = "rendered" /\ StartsWithId(key, exampleId')) =>
             /\ CreatedFor(key) = exampleId'
             /\ \E traceIdx \in 1..Len(rendered'.blocks) :
                  \E blockIdx \in 1..Len(rendered'.blocks[traceIdx]) :
                    /\ key = exampleId' \o <<"-", "trace", Base36Digits[traceIdx],
                                             "-", "block", Base36Digits[blockIdx]>>
                    /\ blockDataStore'[key].content
                         = rendered'.blocks[traceIdx][blockIdx].content ]_vars

\* an example has been rendered after another one and the store holds the
\* blocks of both
C30_Witness ==
  /\ Rendered
  /\ \E key \in DOMAIN blockDataStore : CreatedFor(key) = exampleId
  /\ \E key \in DOMAIN blockDataStore : CreatedFor(key) # exampleId

(***************************************************************************)
(* Properties settled last: isolation of decodes, the examples scan, file  *)
(* names, the prefix count, grouping, and the viewer's loads               *)
(***************************************************************************)
\* C31: every trace a load returns is the trace the load returns for a
\* directory that holds that trace's file alone: what the decoder makes of
\* a stream depends on the events of that stream only, whatever was decoded
\* before it in the same listing.
C31_DecodedFromOwnEventsOnly ==
  Loaded =>
    \A n \in 1..Len(loaded.llmTraces) :
      ParseExample([dir EXCEPT !.entries = <<FileOf(loaded.llmTraces[n])>>]).llmTraces
        = <<loaded.llmTraces[n]>>

\* a load that decoded two streams of different events, one after the other
C31_Witness ==
  /\ Loaded
  /\ \E k, l \in 1..Len(dir.entries) :
       /\ k < l
       /\ \A i \in {k, l} :
            /\ IsTraceFile(dir.entries[i]) /\ ~dir.entries[i].name.json
            /\ ~DecodingFails(dir.entries[i])
       /\ dir.entries[k].body.events # dir.entries[l].body.events

\* a file name of the documented layout: a timestamp in square brackets, a
\* Request or Response marker, and an endpoint after api.anthropic.com_
DocumentedLayout(name) ==
  /\ name.stamp # <<>>
  /\ name.marker \in {"Request", "Response"}
  /\ name.host /\ name.path # <<>>

\* C33: every returned trace whose file name has the documented layout is
\* a request exactly when the name carries the Request marker, a response
\* otherwise, and has the bracketed integer of the name as timestamp.
C33_KindFromMarker ==
  Loaded =>
    \A n \in 1..Len(loaded.llmTraces) :
      LET trace == loaded.llmTraces[n] IN
      DocumentedLayout(trace.filePath) =>
        /\ trace.type = "request" <=> trace.filePath.marker = "Request"
        /\ trace.type \in {"request", "response"}
        /\ trace.timestamp = trace.filePath.stamp[1]

\* the name is one or more decimal digits, an underscore, and any rest
DigitsThenUnderscore(name) ==
  \E k \in 2..Len(name) :
    /\ name[k] = "_"
    /\ \A i \in 1..(k - 1) :
         name[i] \in {"0", "1", "2", "3", "4", "5", "6", "7", "8", "9"}

\* C32: every example the scan returns has as id the name, a string, of an
\* entry of the examples directory that is a directory and whose name is
\* digits followed by an underscore; nothing is returned for a file or for
\* a directory of another name, and a missing directory gives the empty list.
C32_OnlyNumberedDirectories ==
  loaded.status = "returned" =>
    /\ ~dir.exists => loaded.examples = <<>>
    /\ \A n \in 1..Len(loaded.examples) :
         /\ loaded.examples[n].id.t = "string"
         /\ \E k \in 1..Len(dir.entries) :
              /\ dir.entries[k].name = loaded.examples[n].id.s
              /\ dir.entries[k].isDir
              /\ DigitsThenUnderscore(dir.entries[k].name)
    /\ \A k \in 1..Len(dir.entries) :
         (~dir.entries[k].isDir \/ ~DigitsThenUnderscore(dir.entries[k].name)) =>
           \A n \in 1..Len(loaded.examples) :
             loaded.examples[n].id.s # dir.entries[k].name

\* a scan of a directory that holds a numbered directory, a file of a
\* numbered name and a directory of another name, one example returned
C32_Witness ==
  /\ loaded.status = "returned" /\ dir.exists
  /\ Len(loaded.examples) = 1
  /\ \E i, j, k \in 1..Len(dir.entries) :
       /\ dir.entries[i].isDir /\ DigitsThenUnderscore(dir.entries[i].name)
       /\ ~dir.entries[j].isDir /\ DigitsThenUnderscore(dir.entries[j].name)
       /\ dir.entries[k].isDir /\ ~DigitsThenUnderscore(dir.entries[k].name)

\* C34: for every request and the request it is compared with, the count
\* of countMatchingPrefixBlocks on their hash sequences is at most the
\* length of the shorter one, the two sequences agree on that many leading
\* elements, and they agree on no greater number of leading elements: equal
\* elements that come after the first mismatch add nothing to the count.
C34_LongestCommonPrefix ==
  Rendered =>
    \A i \in ComparedRequests :
      \A prev \in {GenerateBlockHashSequence(llmTraces[Predecessor(i)])} :
        \A cur \in {GenerateBlockHashSequence(llmTraces[i])} :
          \A count \in {CountMatchingPrefixBlocks(prev, cur)} :
            /\ count \in 0..Len(prev) /\ count \in 0..Len(cur)
            /\ \A j \in 1..count : prev[j] = cur[j]
            /\ \A k \in (count + 1)..Len(cur) :
                 k <= Len(prev) => \E j \in 1..k : prev[j] # cur[j]

\* a rendered request whose hash sequence leaves that of its predecessor
\* after a common prefix and meets it again at a later position
C34_Witness ==
  /\ Rendered
  /\ \E i \in ComparedRequests :
       \E prev \in {GenerateBlockHashSequence(llmTraces[Predecessor(i)])} :
         \E cur \in {GenerateBlockHashSequence(llmTraces[i])} :
           \E count \in {CountMatchingPrefixBlocks(prev, cur)} :
             /\ count >= 1
             /\ \E j \in (count + 2)..Len(cur) : j <= Len(prev) /\ prev[j] = cur[j]

\* the isContinued flags renderBlocks hands to groupAndRenderBlocks with
\* the blocks of request i
FlagsOf(i) ==
  CHOOSE flags \in
    {[b \in 1..Len(blocks) |->
        b <= count \/ IsContinuedFromResponse(blocks[b], hashes, ids)] :
       blocks \in {RequestBlocks(llmTraces[i])},
       count \in {ContinuedBlockCount(llmTraces, i, rendered.traceLevels[i],
                                       rendered.traceLevels)},
       hashes \in {PreviousResponseHashes(llmTraces, i)},
       ids \in {PreviousResponseToolUseIds(llmTraces, i)}} : TRUE

\* C35: the display of a request shows each of its blocks once, in their
\* order, and a block is shown as continued exactly when it and every
\* block before it are flagged continued: the run of flagged blocks that
\* starts at index 0 keeps the mark, every later run is shown as ordinary
\* blocks, so the continued blocks are one run from index 0.
C35_OnlyLeadingRunContinued ==
  Rendered =>
    \A i \in Requests :
      \A flags \in {FlagsOf(i)} :
        \A blocks \in {RequestBlocks(llmTraces[i])} :
          /\ Len(rendered.blocks[i]) = Len(blocks)
          /\ \A b \in 1..Len(blocks) :
               /\ rendered.blocks[i][b].type = blocks[b].type
               /\ rendered.blocks[i][b].content = blocks[b].content
               /\ Marked(i, b) <=> \A c \in 1..b : flags[c]
               /\ Marked(i, b) => \A c \in 1..b : Marked(i, c)

\* a rendered request with a flagged run at index 0, a block that is not
\* flagged, and a flagged block after it
C35_Witness ==
  /\ Rendered
  /\ \E i \in Requests :
       \E flags \in {FlagsOf(i)} :
         \E b, c \in 1..Len(flags) :
           /\ flags[1] /\ ~flags[b] /\ flags[c] /\ b < c
           /\ Marked(i, 1) /\ ~Marked(i, c)

\* C36: a request is displayed with as many blocks as its hash sequence
\* has elements; the blocks come in the order of the sequence, the system
\* items first, then the tools, then the content of the messages; and the
\* block at each position is built from the unit the element at that
\* position is the hash of, so the blocks below the prefix count are marked
\* and are the units found equal to those of the predecessor.
C36_BlocksFollowHashSequence ==
  Rendered =>
    \A i \in Requests :
      \A hashes \in {GenerateBlockHashSequence(llmTraces[i])} :
        \A blocks \in {RequestBlocks(llmTraces[i])} :
          LET systems == Len(SystemItems(llmTraces[i]))
              tools == Len(ToolItems(llmTraces[i])) IN
          /\ Len(blocks) = Len(hashes)
          /\ Len(rendered.blocks[i]) = Len(hashes)
          /\ \A b \in 1..Len(hashes) :
               /\ blocks[b].hash = hashes[b]
               /\ rendered.blocks[i][b].content = blocks[b].content
               /\ rendered.blocks[i][b].type = blocks[b].type
               /\ blocks[b].kind \in
                    (IF b <= systems THEN {"system"}
                     ELSE IF b <= systems + tools THEN {"tool"}
                     ELSE {"content", "message"})
          /\ Predecessor(i) # 0 =>
               \A prev \in {GenerateBlockHashSequence(llmTraces[Predecessor(i)])} :
                 \A count \in {CountMatchingPrefixBlocks(prev, hashes)} :
                   count > systems =>
                     \A b \in 1..count : Marked(i, b) /\ blocks[b].hash = prev[b]

\* a rendered request with a system item, a tool and a message, all three
\* below the prefix count
C36_Witness ==
  /\ Rendered
  /\ \E i \in Requests :
       /\ Len(SystemItems(llmTraces[i])) >= 1
       /\ Len(ToolItems(llmTraces[i])) >= 1
       /\ \E b \in 1..Len(rendered.blocks[i]) :
            RequestBlocks(llmTraces[i])[b].kind \in {"message", "content"}
       /\ ContinuedBlockCount(llmTraces, i, rendered.traceLevels[i],
                               rendered.traceLevels) >= 3
       /\ ContinuedBlockCount(llmTraces, i, rendered.traceLevels[i],
                               rendered.traceLevels) >= 3

\* C37: once no fetch is pending and the container shows a rendered
\* example, that example is the one selected, and the block store holds the
\* data of each of its displayed blocks under the key of the selected id.
C37_LastSelectionShown ==
  (pending = <<>> /\ Rendered /\ selected # <<>>) =>
    /\ exampleId = selected
    /\ \A traceIdx \in 1..Len(rendered.blocks) :
         \A blockIdx \in 1..Len(rendered.blocks[traceIdx]) :
           \E key \in DOMAIN blockDataStore :
             /\ key = selected \o <<"-", "trace", Base36Digits[traceIdx],
                                    "-", "block", Base36Digits[blockIdx]>>
             /\ blockDataStore[key].content = rendered.blocks[traceIdx][blockIdx].content

\* C38: a step that renders an example leaves every entry of the block
\* store that was created for another example in the store, as it was.
C38_OtherExamplesUntouched ==
  [][ \A key \in DOMAIN blockDataStore :
        CreatedFor(key) # exampleId' =>
          /\ key \in DOMAIN blockDataStore'
          /\ blockDataStore'[key] = blockDataStore[key] ]_vars

\* C39: the traces of an example get from the viewer of the static build
\* the lanes and the continued marks they get from the viewer fed by the
\* server: rendering the embedded object gives the levels and the marked
\* blocks that rendering the answer of /api/example/:id gives.
C39_BuildRendersAsServer ==
  Rendered =>
    \A levels \in {TraceLevels(llmTraces, EmbeddedSystemPrompts)} :
      /\ levels = rendered.traceLevels
      /\ \A idx \in 1..Len(llmTraces) :
           RenderBlocks(llmTraces, idx, levels[idx], levels) = rendered.blocks[idx]

====
